---- MODULE Spec2Model ----
(***************************************************************************)
(* Joystick_BT_game: serial-port discovery, frame decoding and the serial  *)
(* intake of the tick loops of game.py, claude.py, game1.py, game2.py and   *)
(* optimized_flight.py.                                                     *)
(*                                                                         *)
(* Text is modelled as a sequence of one-character strings, so that the    *)
(* decoders are computed character by character as the Python code does.   *)
(***************************************************************************)
EXTENDS Integers, Sequences, FiniteSets, TLC

(***************************************************************************)
(* Character classes and the str/re primitives the sources use.            *)
(***************************************************************************)
Digits == <<"0", "1", "2", "3", "4", "5", "6", "7", "8", "9">>

Upper == <<"A", "B", "C", "D", "E", "F", "G", "H", "I", "J", "K", "L", "M",
           "N", "O", "P", "Q", "R", "S", "T", "U", "V", "W", "X", "Y", "Z">>

Lower == <<"a", "b", "c", "d", "e", "f", "g", "h", "i", "j", "k", "l", "m",
           "n", "o", "p", "q", "r", "s", "t", "u", "v", "w", "x", "y", "z">>

Range(s) == {s[i] : i \in DOMAIN s}

\* str.isdigit / regex \d on the ASCII alphabet
IsDigit(c) == c \in Range(Digits)

\* str.strip() whitespace / regex \s
IsSpace(c) == c \in {" ", "\t", "\n", "\r"}

\* regex \w
IsWord(c) == IsDigit(c) \/ c \in Range(Upper) \/ c \in Range(Lower) \/ c = "_"

DigitVal(c) == (CHOOSE i \in DOMAIN Digits : Digits[i] = c) - 1

\* one character of str.lower()
LowerChar(c) ==
    IF c \in Range(Upper) THEN Lower[CHOOSE i \in DOMAIN Upper : Upper[i] = c] ELSE c

\* str.lower()
ToLower(s) == [i \in DOMAIN s |-> LowerChar(s[i])]

\* s[a..b] as a sequence (empty when b < a)
Slice(s, a, b) == IF b < a THEN <<>> ELSE [i \in 1..(b - a + 1) |-> s[a + i - 1]]

\* needle occurs in hay starting at position i
OccursAt(needle, hay, i) ==
    /\ i >= 1
    /\ i + Len(needle) - 1 <= Len(hay)
    /\ \A k \in 1..Len(needle) : hay[i + k - 1] = needle[k]

\* Python's `needle in hay`
Contains(needle, hay) == \E i \in 1..(Len(hay) + 1) : OccursAt(needle, hay, i)

\* ''.join(c for c in s if c.isdigit())
RECURSIVE DigitsOf(_)
DigitsOf(s) ==
    IF s = <<>> THEN <<>>
    ELSE IF IsDigit(Head(s)) THEN <<Head(s)>> \o DigitsOf(Tail(s))
    ELSE DigitsOf(Tail(s))

\* int(d) for a non-empty string of digits
RECURSIVE IntOfDigits(_)
IntOfDigits(d) ==
    IF d = <<>> THEN 0
    ELSE 10 * IntOfDigits(SubSeq(d, 1, Len(d) - 1)) + DigitVal(d[Len(d)])

\* str.strip()
RECURSIVE LStrip(_)
LStrip(s) == IF s # <<>> /\ IsSpace(Head(s)) THEN LStrip(Tail(s)) ELSE s

RECURSIVE RStrip(_)
RStrip(s) ==
    IF s # <<>> /\ IsSpace(s[Len(s)]) THEN RStrip(SubSeq(s, 1, Len(s) - 1)) ELSE s

Strip(s) == LStrip(RStrip(s))

\* str.split(sep) for a one-character separator: the list of parts
RECURSIVE SplitAcc(_, _, _)
SplitAcc(s, sep, cur) ==
    IF s = <<>> THEN <<cur>>
    ELSE IF Head(s) = sep THEN <<cur>> \o SplitAcc(Tail(s), sep, <<>>)
    ELSE SplitAcc(Tail(s), sep, Append(cur, Head(s)))

Split(s, sep) == SplitAcc(s, sep, <<>>)

\* str.replace(a, b) for one-character a and b
ReplaceChar(s, a, b) == [i \in DOMAIN s |-> IF s[i] = a THEN b ELSE s[i]]

\* end of the maximal run of characters satisfying the class, starting at i
\* (i - 1 when s[i] is not in the class)
RECURSIVE DigitRunEnd(_, _)
DigitRunEnd(s, i) ==
    IF i <= Len(s) /\ IsDigit(s[i]) THEN DigitRunEnd(s, i + 1) ELSE i - 1

RECURSIVE SpaceRunEnd(_, _)
SpaceRunEnd(s, i) ==
    IF i <= Len(s) /\ IsSpace(s[i]) THEN SpaceRunEnd(s, i + 1) ELSE i - 1

RECURSIVE NonDigitRunEnd(_, _)
NonDigitRunEnd(s, i) ==
    IF i <= Len(s) /\ ~IsDigit(s[i]) THEN NonDigitRunEnd(s, i + 1) ELSE i - 1

(***************************************************************************)
(* Frame decoders.  A decoded pair is a record; NoneXY stands for the      *)
(* Python result (None, None).                                             *)
(***************************************************************************)
NoneXY == [ok |-> FALSE, x |-> 0, y |-> 0]

XY(a, b) == [ok |-> TRUE, x |-> a, y |-> b]

\* game.py / claude.py parse_sensor_data.  The fields of the result are the
\* numerators of x_norm and y_norm over 512: (x - 512) / 512.0 is exact in
\* binary floating point, so the pair of numerators identifies the result.
parse_sensor_data(line) ==
    LET parts == Split(line, ",")
    IN  IF Len(parts) >= 2
        THEN LET xd == DigitsOf(parts[1])
                 yd == DigitsOf(parts[2])
             IN  IF xd = <<>> \/ yd = <<>>
                 THEN NoneXY                       \* int('') raises ValueError
                 ELSE XY(IntOfDigits(xd) - 512, IntOfDigits(yd) - 512)
        ELSE NoneXY

\* regex fragment  L[:=]\s*  matched at position i: the position where the
\* digits must start, 0 when the fragment does not match at i
LabelDigitsStart(s, i, L) ==
    IF i + 1 <= Len(s) /\ s[i] = L /\ s[i + 1] \in {":", "="}
    THEN SpaceRunEnd(s, i + 2) + 1
    ELSE 0

\* regex fragment  L[:=]\s*(\d+)  matches at position i
LabelMatchesAt(s, i, L) ==
    LET d == LabelDigitsStart(s, i, L)
    IN  d > 0 /\ DigitRunEnd(s, d) >= d

\* the positions j of a Y label reachable from the end e1 of the X digits
\* through [^\d]*
YPositions(s, e1) ==
    {j \in (e1 + 1)..NonDigitRunEnd(s, e1 + 1) : LabelMatchesAt(s, j, "Y")}

\* the whole pattern (?:X[:=]\s*(\d+))[^\d]*(?:Y[:=]\s*(\d+)) matches at i
PatternMatchesAt(s, i) ==
    /\ LabelMatchesAt(s, i, "X")
    /\ YPositions(s, DigitRunEnd(s, LabelDigitsStart(s, i, "X"))) # {}

\* the two groups of the pattern matched at i
PatternGroups(s, i) ==
    LET d1 == LabelDigitsStart(s, i, "X")
        e1 == DigitRunEnd(s, d1)
        ys == YPositions(s, e1)
        j  == CHOOSE k \in ys : \A m \in ys : m <= k
        d2 == LabelDigitsStart(s, j, "Y")
        e2 == DigitRunEnd(s, d2)
    IN  XY(IntOfDigits(Slice(s, d1, e1)), IntOfDigits(Slice(s, d2, e2)))

\* re.findall(r'\b\d{2,4}\b', s) from position i on, as integers
RECURSIVE FindNumbers(_, _)
FindNumbers(s, i) ==
    IF i > Len(s) THEN <<>>
    ELSE LET e == DigitRunEnd(s, i)
             n == e - i + 1
         IN  IF /\ n >= 2
                /\ n <= 4
                /\ (i = 1 \/ ~IsWord(s[i - 1]))
                /\ (e = Len(s) \/ ~IsWord(s[e + 1]))
             THEN <<IntOfDigits(Slice(s, i, e))>> \o FindNumbers(s, e + 1)
             ELSE FindNumbers(s, i + 1)

\* game1.py parse_xy
parse_xy(line) ==
    LET starts == {i \in 1..Len(line) : PatternMatchesAt(line, i)}
    IN  IF starts # {}
        THEN PatternGroups(line, CHOOSE i \in starts : \A k \in starts : i <= k)
        ELSE LET numbers == FindNumbers(line, 1)
             IN  IF Len(numbers) >= 2 THEN XY(numbers[1], numbers[2]) ELSE NoneXY

\* game2.py find_bluetooth_port, the inline decode of one stripped line
\* (without the range test that follows it)
parse_game2(s) ==
    LET parts == IF Contains(<<"|">>, s)
                 THEN Split(ReplaceChar(s, "|", ","), ",")
                 ELSE Split(s, ",")
    IN  IF Len(parts) >= 2
        THEN LET xd == DigitsOf(parts[1])
                 yd == DigitsOf(parts[2])
             IN  IF xd = <<>> \/ yd = <<>>
                 THEN NoneXY                       \* int('') raises, caught
                 ELSE XY(IntOfDigits(xd), IntOfDigits(yd))
        ELSE NoneXY

\* "X:" in s and "Y:" in s
HasMarkers(s) == Contains(<<"X", ":">>, s) /\ Contains(<<"Y", ":">>, s)

(***************************************************************************)
(* Bytes read from a channel.  A raw line is a sequence of bytes; the      *)
(* token "<FF>" stands for a byte that is not valid UTF-8 / ASCII.         *)
(***************************************************************************)
InvalidByte == "<FF>"

\* bytes.decode(errors='ignore'): invalid bytes are dropped
RECURSIVE DecodeIgnore(_)
DecodeIgnore(raw) ==
    IF raw = <<>> THEN <<>>
    ELSE IF Head(raw) = InvalidByte THEN DecodeIgnore(Tail(raw))
    ELSE <<Head(raw)>> \o DecodeIgnore(Tail(raw))

\* the raw lines a device (or a foreign device on another port) may emit
LineXY      == <<"X", ":", "4", "4", "8", ",", "Y", ":", "4", "6", "1", "\r", "\n">>
LinePipe    == <<"X", ":", " ", "4", "4", "8", " ", "|", " ", "Y", ":", " ", "4", "6", "1", "\n">>
LineNoise   == <<"n", "o", "i", "s", "e", "\n">>
LineNoX     == <<"X", ":", ",", "Y", ":", "4", "6", "1", "\n">>
LineBig     == <<"X", ":", "2", "0", "0", "0", ",", "Y", ":", "1", "0", "0", "\n">>
LineBlank   == <<"\r", "\n">>
LineBadByte == <<"X", ":", "4", "4", InvalidByte, "8", ",", "Y", ":", "4", "6", "1", "\n">>

ScanLines == {LineXY, LinePipe, LineNoise, LineNoX, LineBig, LineBlank, LineBadByte}

(***************************************************************************)
(* Candidate ports, as serial.tools.list_ports.comports() reports them.    *)
(* A description is absent (None) or a text.                               *)
(***************************************************************************)
NoDesc == [present |-> FALSE, text |-> <<>>]

Desc(t) == [present |-> TRUE, text |-> t]

PortPool ==
    << [device |-> <<"C", "O", "M", "3">>,
        description |-> Desc(<<"U", "S", "B", " ", "S", "e", "r", "i", "a", "l">>)],
       [device |-> <<"C", "O", "M", "1", "0">>,
        description |-> NoDesc],
       [device |-> <<"t", "t", "y", "S", "3">>,
        description |-> Desc(<<"H", "C", "-", "0", "5">>)],
       [device |-> <<"r", "f", "c", "o", "m", "m">>,
        description |-> Desc(<<"M", "o", "d", "e", "m">>)],
       [device |-> <<"C", "O", "M", "7">>,
        description |-> Desc(<<"B", "L", "U", "E", "T", "O", "O", "T", "H">>)] >>

PortIds == DOMAIN PortPool

\* the longest candidate list handed to the two sorts
MaxPorts == 3

\* the longest candidate list a whole scan is followed on
MaxScanPorts == 3

\* the candidates a whole scan is followed on
ScanPortIds == {1, 2, 3}

\* the ticks of the session followed after discovery
MaxTicks == 2

\* lists of distinct elements of S of length at most n
DistinctSeqs(S, n) ==
    UNION {{q \in [1..k -> S] : \A i, j \in 1..k : i # j => q[i] # q[j]} : k \in 0..n}

\* get_com_num: int of all digits of the device name, 0 when there is none
get_com_num(port) ==
    LET d == DigitsOf(port.device)
    IN  IF d = <<>> THEN 0 ELSE IntOfDigits(d)

preferred_keywords ==
    << <<"H", "C", "-", "0", "5">>,
       <<"B", "l", "u", "e", "t", "o", "o", "t", "h">>,
       <<"A", "r", "d", "u", "i", "n", "o">>,
       <<"S", "e", "r", "i", "a", "l">> >>

\* port_priority: 0 for a description holding a keyword, else 1
port_priority(p) ==
    LET desc == ToLower(IF p.description.present THEN p.description.text ELSE <<>>)
    IN  IF \E k \in DOMAIN preferred_keywords :
               Contains(ToLower(preferred_keywords[k]), desc)
        THEN 0
        ELSE 1

\* list.sort is stable: insert e behind every element whose key is <= key[e]
RECURSIVE InsertStable(_, _, _)
InsertStable(sorted, e, key) ==
    IF sorted = <<>> THEN <<e>>
    ELSE IF key[Head(sorted)] <= key[e]
         THEN <<Head(sorted)>> \o InsertStable(Tail(sorted), e, key)
         ELSE <<e>> \o sorted

RECURSIVE StableSortAcc(_, _, _)
StableSortAcc(rest, sorted, key) ==
    IF rest = <<>> THEN sorted
    ELSE StableSortAcc(Tail(rest), InsertStable(sorted, Head(rest), key), key)

\* list.sort(key=...) on a list of port ids, ascending and stable
StableSort(list, key) == StableSortAcc(list, <<>>, key)

\* a buggy ordering: the numeric sort ascending
SortedPortsAscending(list) ==
    StableSort(StableSort(list, [i \in PortIds |-> get_com_num(PortPool[i])]),
               [i \in PortIds |-> port_priority(PortPool[i])])

\* ports.sort(key=get_com_num, reverse=True); ports.sort(key=port_priority).
\* A reverse sort keeps equal elements in their original order, as a stable
\* ascending sort on the negated key does.
SortedPorts(list) ==
    StableSort(StableSort(list, [i \in PortIds |-> 0 - get_com_num(PortPool[i])]),
               [i \in PortIds |-> port_priority(PortPool[i])])

(***************************************************************************)
(* State.  Discovery: find_working_port (game.py, claude.py),              *)
(* find_active_port (game1.py), find_bluetooth_port (game2.py) and         *)
(* FlightSimulator.find_joystick (optimized_flight.py), followed by the    *)
(* caller's decision to enter the tick loop.  Session: the serial intake   *)
(* of the tick loops, then the tick loop as a whole with its events, its   *)
(* exits and the aircraft state.                                           *)
(***************************************************************************)
VARIABLES
    variant,      \* which program runs
    comports,     \* the candidate list as enumerated by the host
    ports,        \* the list discovery iterates over (port ids)
    pc,           \* position of the program
    idx,          \* index in ports of the current candidate, 0 before the first
    open,         \* indices of the candidates whose handle is open
    tried,        \* indices of the candidates serial.Serial was called on
    rejected,     \* indices of the candidates given up
    valid_count,  \* the code's valid_count
    attempts,     \* the code's attempts (optimized_flight: the range(5) index)
    result,       \* index of the returned candidate, 0 for None
    ticks,        \* iterations of the caller's tick loop
    good,         \* lines with both markers that decoded, read from the candidate
    goodInRange,  \* those of them accepted by the program's range policy
    readErr,      \* the latest read on the candidate raised
    errBetween,   \* a read raised after the candidate's first valid frame
    escaped,      \* an exception left the discovery function
    singles,      \* the candidates given up after exactly one valid frame
    buffer,       \* raw lines waiting on the bound channel, oldest first
    snapshot,     \* the lines that were waiting when the latest tick polled
    reading,      \* the reading the program holds
    appliedLog,   \* the readings applied to the state, oldest first
    running,      \* the flag the tick loop tests
    closes,       \* calls of close() on the bound handle
    ended,        \* how the session ended: "no", "normal" or "raised"
    quit,         \* a quit event (window close or Escape) was handled
    ioFailed,     \* a read on the bound channel raised
    advances,     \* advances of the aircraft state in the current iteration
    used,         \* the joystick values the integrator used last
    craft,        \* the aircraft state
    crossed,      \* the frame of the current iteration crossed the bound
    event         \* the event handled in the current iteration

scanVars == <<comports, ports, idx, open, tried, rejected, valid_count, attempts,
              result, good, goodInRange, readErr, errBetween, escaped, singles>>

sessVars == <<buffer, snapshot, reading, appliedLog>>

lifeVars == <<running, closes, ended, quit, ioFailed, advances, used, craft,
              crossed, event>>

vars == <<variant, pc, ticks, scanVars, sessVars, lifeVars>>

Variants == {"game", "claude", "game1", "game2", "optimized_flight"}

\* the programs whose discovery counts valid frames
Counting == {"game", "claude", "game1", "game2"}

\* while ... attempts < 60
MaxAttempts == 60

\* valid_count >= 2
RequiredValid == 2

\* for _ in range(5)
TestReads == 5

\* 0 <= x <= 1023 and 0 <= y <= 1023
RawMax == 1023

\* the stripped text of a raw line
Text(raw) == Strip(DecodeIgnore(raw))

\* game.py / claude.py lines 61-68: the line raises valid_count
valid_game(raw) ==
    LET s == Text(raw)
    IN  s # <<>> /\ HasMarkers(s) /\ parse_sensor_data(s).ok

\* game1.py lines 77-84
valid_game1(raw) ==
    LET s == Text(raw)
    IN  s # <<>> /\ HasMarkers(s) /\ parse_xy(s).ok

\* game2.py lines 65-86
valid_game2(raw) ==
    LET s == Text(raw)
        r == parse_game2(s)
    IN  /\ s # <<>>
        /\ HasMarkers(s)
        /\ r.ok
        /\ 0 <= r.x /\ r.x <= RawMax /\ 0 <= r.y /\ r.y <= RawMax

\* optimized_flight.py lines 228-229
valid_optimized(raw) == HasMarkers(Text(raw))

\* per program, the raw lines that raise valid_count
ValidLines ==
    [v \in Counting |->
        {raw \in ScanLines :
            CASE v \in {"game", "claude"} -> valid_game(raw)
              [] v = "game1" -> valid_game1(raw)
              [] v = "game2" -> valid_game2(raw)}]

\* the raw lines find_joystick accepts
JoystickLines == {raw \in ScanLines : valid_optimized(raw)}

\* the decoder the program's discovery applies to a stripped line
Decode(v, s) ==
    CASE v \in {"game", "claude"} -> parse_sensor_data(s)
      [] v = "game1" -> parse_xy(s)
      [] v = "game2" -> parse_game2(s)

\* a line that contains both markers and decodes
QualifyingLine(v, raw) == HasMarkers(Text(raw)) /\ Decode(v, Text(raw)).ok

\* a qualifying line that also passes the program's range policy (only
\* game2.py has one)
InRangeLine(v, raw) ==
    /\ QualifyingLine(v, raw)
    /\ v = "game2" =>
         LET r == Decode(v, Text(raw))
         IN  0 <= r.x /\ r.x <= RawMax /\ 0 <= r.y /\ r.y <= RawMax

QualifyingLines == [v \in Counting |-> {raw \in ScanLines : QualifyingLine(v, raw)}]

InRangeLines == [v \in Counting |-> {raw \in ScanLines : InRangeLine(v, raw)}]

\* ghost counters saturate one above the acceptance threshold
Bump(n, b) == IF b /\ n <= RequiredValid THEN n + 1 ELSE n

\* the session part of the state, untouched by discovery
NoSession ==
    /\ buffer = <<>>
    /\ snapshot = <<>>
    /\ reading = NoneXY
    /\ appliedLog = <<>>
    /\ running = TRUE
    /\ closes = 0
    /\ ended = "no"
    /\ quit = FALSE
    /\ ioFailed = FALSE
    /\ advances = 0
    /\ used = NoneXY
    /\ craft = <<>>
    /\ crossed = FALSE
    /\ event = "none"

ScanStart ==
    /\ variant \in Variants
    /\ ports = <<>>
    /\ pc = "scan_start"
    /\ idx = 0
    /\ open = {}
    /\ tried = {}
    /\ rejected = {}
    /\ valid_count = 0
    /\ attempts = 0
    /\ result = 0
    /\ ticks = 0
    /\ good = 0
    /\ goodInRange = 0
    /\ readErr = FALSE
    /\ errBetween = FALSE
    /\ escaped = FALSE
    /\ singles = {}
    /\ NoSession

\* a whole scan, on short candidate lists
InitScan == ScanStart /\ comports \in DistinctSeqs(ScanPortIds, MaxScanPorts)

\* the ordering alone, on every short list of the pool
InitSort == ScanStart /\ comports \in DistinctSeqs(PortIds, MaxPorts)

\* what the function does when it finds no device: return None, or
\* sys.exit(1) in game2.py
NotFoundPc(v) == IF v = "game2" THEN "exit" ELSE "not_found"

\* for port in ports: the position after candidate i of n is done with
ForNextPc(i, n, v) == IF i < n THEN "scan_open" ELSE NotFoundPc(v)

\* a buggy loop: a candidate is skipped
ForNextIdxSkips(i, n) == IF i + 2 <= n THEN i + 2 ELSE IF i < n THEN i + 1 ELSE i

ForNextIdx(i, n) == IF i < n THEN i + 1 ELSE i

\* comports(), the empty test, the two sorts and the first turn of the for
\* loop.  find_joystick neither tests for an empty list nor sorts.
Enumerate ==
    /\ pc = "scan_start"
    /\ ports' = IF variant = "optimized_flight" THEN comports ELSE SortedPorts(comports)
    /\ pc' = ForNextPc(0, Len(comports), variant)
    /\ idx' = ForNextIdx(0, Len(comports))
    /\ UNCHANGED <<lifeVars, variant, ticks, comports, open, tried, rejected, valid_count,
                   attempts, result, good, goodInRange, readErr, errBetween,
                   escaped, singles, sessVars>>

\* ser = None; ser = serial.Serial(port.device, BAUD, timeout=0.1): it opens
\* the handle or raises, and a raise takes the except branch to the next
\* candidate.  In find_joystick the range(5) loop starts after the open.
OpenPort ==
    /\ pc = "scan_open"
    /\ tried' = tried \cup {idx}
    /\ \E ok \in BOOLEAN :
         IF ok
         THEN /\ open' = open \cup {idx}
              /\ pc' = IF variant = "optimized_flight" THEN "scan_test" ELSE "scan_reset"
              /\ UNCHANGED <<rejected, idx>>
         ELSE /\ open' = open
              /\ rejected' = rejected \cup {idx}
              /\ pc' = ForNextPc(idx, Len(ports), variant)
              /\ idx' = ForNextIdx(idx, Len(ports))
    /\ good' = 0
    /\ goodInRange' = 0
    /\ readErr' = FALSE
    /\ errBetween' = FALSE
    /\ attempts' = IF variant = "optimized_flight" THEN 0 ELSE attempts
    /\ UNCHANGED <<lifeVars, variant, ticks, comports, ports, valid_count, result, escaped, singles,
                   sessVars>>

\* a buggy start of a candidate: valid_count is set to 0 once, before the
\* for loop, and keeps what the candidates before have counted
ResetBufferKeepsCount ==
    /\ pc = "scan_reset"
    /\ \E ok \in BOOLEAN :
         IF ok
         THEN /\ pc' = "scan_while"
              /\ attempts' = 0
              /\ UNCHANGED <<valid_count, open, rejected, idx>>
         ELSE /\ pc' = ForNextPc(idx, Len(ports), variant)
              /\ idx' = ForNextIdx(idx, Len(ports))
              /\ open' = open \ {idx}
              /\ rejected' = rejected \cup {idx}
              /\ UNCHANGED <<valid_count, attempts>>
    /\ UNCHANGED <<lifeVars, variant, ticks, comports, ports, tried, result, good,
                   goodInRange, readErr, errBetween, escaped, singles, sessVars>>

\* time.sleep(0.1); ser.reset_input_buffer(); valid_count = 0; attempts = 0.
\* A raise of reset_input_buffer closes the handle in the except branch and
\* moves on to the next candidate.
ResetBuffer ==
    /\ pc = "scan_reset"
    /\ \E ok \in BOOLEAN :
         IF ok
         THEN /\ pc' = "scan_while"
              /\ valid_count' = 0
              /\ attempts' = 0
              /\ UNCHANGED <<open, rejected, idx>>
         ELSE /\ pc' = ForNextPc(idx, Len(ports), variant)
              /\ idx' = ForNextIdx(idx, Len(ports))
              /\ open' = open \ {idx}
              /\ rejected' = rejected \cup {idx}
              /\ UNCHANGED <<valid_count, attempts>>
    /\ UNCHANGED <<lifeVars, variant, ticks, comports, ports, tried, result, good,
                   goodInRange, readErr, errBetween, escaped, singles, sessVars>>

\* a buggy acceptance test: one valid frame is enough
AcceptsAtOne(vc) == vc >= 1

\* if valid_count >= 2: return ser
Accepts(vc) == vc >= RequiredValid

\* raw = ser.readline() returned nothing: sleep and continue
ReadEmpty ==
    /\ pc = "scan_while"
    /\ attempts < MaxAttempts
    /\ attempts' = attempts + 1
    /\ readErr' = FALSE
    /\ UNCHANGED <<lifeVars, variant, pc, ticks, comports, ports, idx, open, tried, rejected,
                   valid_count, result, good, goodInRange, errBetween, escaped, singles,
                   sessVars>>

\* a buggy handler: the failed read is not counted as an attempt
ReadRaisesFree ==
    /\ pc = "scan_while"
    /\ attempts < MaxAttempts
    /\ readErr' = TRUE
    /\ errBetween' = (errBetween \/ valid_count >= 1)
    /\ UNCHANGED <<lifeVars, variant, pc, ticks, comports, ports, idx, open, tried, rejected,
                   valid_count, attempts, result, good, goodInRange, escaped, singles,
                   sessVars>>

\* a buggy handler: the read error leaves the function
ReadRaisesEscapes ==
    /\ pc = "scan_while"
    /\ attempts < MaxAttempts
    /\ attempts' = attempts + 1
    /\ readErr' = TRUE
    /\ escaped' = TRUE
    /\ pc' = "exit"
    /\ UNCHANGED <<lifeVars, variant, ticks, comports, ports, idx, open, tried, rejected,
                   valid_count, result, good, goodInRange, errBetween, singles,
                   sessVars>>

\* ser.readline() raised: the inner except logs, sleeps and continues
ReadRaises ==
    /\ pc = "scan_while"
    /\ attempts < MaxAttempts
    /\ attempts' = attempts + 1
    /\ readErr' = TRUE
    /\ errBetween' = (errBetween \/ valid_count >= 1)
    /\ UNCHANGED <<lifeVars, variant, pc, ticks, comports, ports, idx, open, tried, rejected,
                   valid_count, result, good, goodInRange, escaped, singles, sessVars>>

\* ser.readline() returned a line: decode, strip, test the markers, parse,
\* count, and return the handle at the second valid frame
ReadLine ==
    /\ pc = "scan_while"
    /\ attempts < MaxAttempts
    /\ attempts' = attempts + 1
    /\ readErr' = FALSE
    /\ \E raw \in ScanLines :
         /\ good' = Bump(good, raw \in QualifyingLines[variant])
         /\ goodInRange' = Bump(goodInRange, raw \in InRangeLines[variant])
         /\ IF raw \in ValidLines[variant]
            THEN /\ valid_count' = valid_count + 1
                 /\ IF Accepts(valid_count + 1)
                    THEN /\ pc' = "found"
                         /\ result' = idx
                    ELSE UNCHANGED <<pc, result>>
            ELSE UNCHANGED <<valid_count, pc, result>>
    /\ UNCHANGED <<lifeVars, variant, ticks, comports, ports, idx, open, tried, rejected,
                   errBetween, escaped, singles, sessVars>>

\* a buggy rejection: the handle is left open
ValidationTimeoutLeaks ==
    /\ pc = "scan_while"
    /\ rejected' = rejected \cup {idx}
    /\ pc' = ForNextPc(idx, Len(ports), variant)
    /\ idx' = ForNextIdx(idx, Len(ports))
    /\ attempts' = 0
    /\ singles' = IF goodInRange = 1 THEN singles \cup {idx} ELSE singles
    /\ UNCHANGED <<lifeVars, variant, ticks, comports, ports, open, tried, valid_count,
                   result, good, goodInRange, readErr, errBetween, escaped,
                   sessVars>>

\* the while condition is false, because attempts reached 60 or because the
\* 2.0 s of wall-clock time have passed (which may be found at any test of
\* the condition): ser.close() and the next candidate.  attempts is not
\* read again before line 50 reassigns it, and is cleared here.
ValidationTimeout ==
    /\ pc = "scan_while"
    /\ open' = open \ {idx}
    /\ rejected' = rejected \cup {idx}
    /\ pc' = ForNextPc(idx, Len(ports), variant)
    /\ idx' = ForNextIdx(idx, Len(ports))
    /\ attempts' = 0
    /\ singles' = IF goodInRange = 1 THEN singles \cup {idx} ELSE singles
    /\ UNCHANGED <<lifeVars, variant, ticks, comports, ports, tried, valid_count, result,
                   good, goodInRange, readErr, errBetween, escaped, sessVars>>

\* optimized_flight.py: ser.in_waiting is 0 on this pass of range(5)
JoystickNothing ==
    /\ pc = "scan_test"
    /\ attempts < TestReads
    /\ attempts' = attempts + 1
    /\ readErr' = FALSE
    /\ UNCHANGED <<lifeVars, variant, pc, ticks, comports, ports, idx, open, tried, rejected,
                   valid_count, result, good, goodInRange, errBetween, escaped, singles,
                   sessVars>>

\* optimized_flight.py: in_waiting or readline raised; the except branch
\* continues with the next port and does not close the handle
JoystickRaises ==
    /\ pc = "scan_test"
    /\ attempts < TestReads
    /\ attempts' = 0
    /\ readErr' = TRUE
    /\ rejected' = rejected \cup {idx}
    /\ pc' = ForNextPc(idx, Len(ports), variant)
    /\ idx' = ForNextIdx(idx, Len(ports))
    /\ UNCHANGED <<lifeVars, variant, ticks, comports, ports, open, tried, valid_count,
                   result, good, goodInRange, errBetween, escaped, singles, sessVars>>

\* optimized_flight.py: a line was read; the handle is returned at the
\* first line holding both markers
JoystickLine ==
    /\ pc = "scan_test"
    /\ attempts < TestReads
    /\ attempts' = attempts + 1
    /\ readErr' = FALSE
    /\ \E raw \in ScanLines :
         /\ good' = Bump(good, raw \in JoystickLines)
         /\ IF raw \in JoystickLines
            THEN /\ pc' = "found"
                 /\ result' = idx
            ELSE UNCHANGED <<pc, result>>
    /\ UNCHANGED <<lifeVars, variant, ticks, comports, ports, idx, open, tried, rejected,
                   valid_count, goodInRange, errBetween, escaped, singles, sessVars>>

\* optimized_flight.py: range(5) is exhausted: ser.close()
JoystickGiveUp ==
    /\ pc = "scan_test"
    /\ attempts = TestReads
    /\ open' = open \ {idx}
    /\ rejected' = rejected \cup {idx}
    /\ pc' = ForNextPc(idx, Len(ports), variant)
    /\ idx' = ForNextIdx(idx, Len(ports))
    /\ attempts' = 0
    /\ UNCHANGED <<lifeVars, variant, ticks, comports, ports, tried, valid_count, result,
                   good, goodInRange, readErr, errBetween, escaped, singles, sessVars>>

\* a buggy caller: it goes on without a handle
CallerProceedsAlways(res) == TRUE

\* the caller's test of what discovery returned: `if not ser: return`
\* (game.py, claude.py), `if ser:` (game1.py, optimized_flight.py)
CallerProceeds(res) == res # 0

\* discovery has returned and its frame is gone; the caller enters its tick
\* loop, or gives up
CallerCheck ==
    /\ pc \in {"found", "not_found"}
    /\ pc' = IF CallerProceeds(result) THEN "tick" ELSE "exit"
    /\ valid_count' = 0
    /\ attempts' = 0
    /\ good' = 0
    /\ goodInRange' = 0
    /\ readErr' = FALSE
    /\ errBetween' = FALSE
    /\ UNCHANGED <<lifeVars, variant, ticks, comports, ports, idx, open, tried, rejected,
                   result, escaped, singles, sessVars>>

\* one iteration of the caller's tick loop
SessionTick ==
    /\ pc = "tick"
    /\ ticks < MaxTicks
    /\ ticks' = ticks + 1
    /\ UNCHANGED <<lifeVars, variant, pc, scanVars, sessVars>>

NextScan ==
    \/ Enumerate
    \/ OpenPort
    \/ ResetBuffer
    \/ ReadEmpty
    \/ ReadRaises
    \/ ReadLine
    \/ ValidationTimeout
    \/ JoystickNothing
    \/ JoystickRaises
    \/ JoystickLine
    \/ JoystickGiveUp
    \/ CallerCheck
    \/ SessionTick

SpecScan == InitScan /\ [][NextScan]_vars

NextSort == Enumerate

SpecSort == InitSort /\ [][NextSort]_vars

(***************************************************************************)
(* Session: the serial intake of one tick of the main loops.  The channel  *)
(* buffer is the sequence of bytes waiting to be read.                     *)
(***************************************************************************)
\* str.replace(pat, rep): the occurrences of pat, left to right and not
\* overlapping, replaced by rep
RECURSIVE ReplaceSub(_, _, _)
ReplaceSub(s, pat, rep) ==
    IF s = <<>> THEN <<>>
    ELSE IF OccursAt(pat, s, 1)
         THEN rep \o ReplaceSub(Slice(s, Len(pat) + 1, Len(s)), pat, rep)
         ELSE <<Head(s)>> \o ReplaceSub(Tail(s), pat, rep)

\* the body of an int() literal: digits, with single underscores inside
RECURSIVE IntBodyOk(_)
IntBodyOk(s) ==
    /\ s # <<>>
    /\ IsDigit(Head(s))
    /\ \/ Len(s) = 1
       \/ IF s[2] = "_" THEN IntBodyOk(Slice(s, 3, Len(s))) ELSE IntBodyOk(Tail(s))

\* the literal without its sign
Unsigned(t) == IF t # <<>> /\ Head(t) \in {"+", "-"} THEN Tail(t) ELSE t

\* int(s) does not raise ValueError: optional blanks, optional sign, digits
PyIntOk(s) == IntBodyOk(Unsigned(Strip(s)))

\* int(s) where it does not raise
PyInt(s) ==
    LET t == Strip(s)
        v == IntOfDigits(DigitsOf(Unsigned(t)))
    IN  IF Head(t) = "-" THEN 0 - v ELSE v

\* the end of the first line of b: the position of the first "\n", or the
\* last byte when there is none (readline returns at the timeout)
FirstLineEnd(b) ==
    IF \E k \in DOMAIN b : b[k] = "\n"
    THEN CHOOSE k \in DOMAIN b : b[k] = "\n" /\ \A m \in 1..(k - 1) : b[m] # "\n"
    ELSE Len(b)

\* str.splitlines() on text whose line ends are \n, \r\n or \r
RECURSIVE SplitLinesAcc(_, _)
SplitLinesAcc(s, cur) ==
    IF s = <<>> THEN (IF cur = <<>> THEN <<>> ELSE <<cur>>)
    ELSE IF Head(s) = "\n" THEN <<cur>> \o SplitLinesAcc(Tail(s), <<>>)
    ELSE IF Head(s) = "\r"
         THEN <<cur>> \o SplitLinesAcc(IF Len(s) >= 2 /\ s[2] = "\n"
                                       THEN Tail(Tail(s)) ELSE Tail(s), <<>>)
    ELSE SplitLinesAcc(Tail(s), Append(cur, Head(s)))

SplitLines(s) == SplitLinesAcc(s, <<>>)

\* a buggy scan of the lines: oldest first
RECURSIVE FirstParsed(_)
FirstParsed(lines) ==
    IF lines = <<>> THEN NoneXY
    ELSE LET r == parse_xy(Head(lines))
         IN  IF r.ok THEN r ELSE FirstParsed(Tail(lines))

\* for line in reversed(lines): the first result of parse_xy that is not
\* None, scanning from the last line back; NoneXY when no line decodes
RECURSIVE LastParsed(_)
LastParsed(lines) ==
    IF lines = <<>> THEN NoneXY
    ELSE LET r == parse_xy(lines[Len(lines)])
         IN  IF r.ok THEN r ELSE LastParsed(SubSeq(lines, 1, Len(lines) - 1))

\* optimized_flight.py lines 193-198 on the text of one line, given the
\* joystick values held: joystick_x is assigned before int(parts[2]) can
\* raise, so a line may renew x alone
joystick_update(line, old) ==
    LET s == Strip(line)
        \* bytes.decode('utf-8') raises on an invalid byte, and the bare
        \* except leaves the values alone
        undecodable == \E k \in DOMAIN line : line[k] = InvalidByte
        parts == Split(ReplaceSub(ReplaceSub(s, <<"X", ":">>, <<",">>),
                                  <<"Y", ":">>, <<",">>), ",")
    IN  IF ~undecodable /\ HasMarkers(s) /\ Len(parts) >= 3 /\ PyIntOk(parts[2])
        THEN IF PyIntOk(parts[3])
             THEN XY(PyInt(parts[2]), PyInt(parts[3]))
             ELSE XY(PyInt(parts[2]), old.y)
        ELSE old

\* the raw lines a bound device emits during the session
FrameA     == <<"X", ":", "4", "4", "8", ",", "Y", ":", "4", "6", "1", "\r", "\n">>
FrameB     == <<"X", ":", "6", "0", "0", ",", "Y", ":", "3", "0", "0", "\n">>
FrameSpA   == <<"X", ":", "4", "4", "8", " ", "Y", ":", "4", "6", "1", "\n">>
FrameSpB   == <<"X", ":", "6", "0", "0", " ", "Y", ":", "3", "0", "0", "\n">>
Garbage    == <<"n", "o", "i", "s", "e", "\n">>

\* the lines followed per program: each set holds two different frames the
\* program's tick decodes, and a line it does not
PollLines(v) ==
    IF v = "optimized_flight" THEN {FrameSpA, FrameSpB, Garbage, FrameA}
    ELSE {FrameA, FrameB, Garbage}

\* the most lines waiting on the channel at once
MaxBuffered == 3

\* the programs whose tick is followed
PollVariants == {"game", "claude", "game1", "game2", "optimized_flight"}

\* number of complete lines in b
LineCount(b) == Cardinality({k \in DOMAIN b : b[k] = "\n"})

\* the reading a program holds before any frame: roll = pitch = 0 (game.py,
\* claude.py), x_val = y_val = 512 (game1.py), joystick_x = joystick_y = 512
InitialReading(v) == IF v \in {"game", "claude"} THEN XY(0, 0) ELSE XY(512, 512)

\* the tick loop has just been entered with the handle of the only candidate
InitPoll ==
    /\ variant \in PollVariants
    /\ comports = <<1>>
    /\ ports = <<1>>
    /\ pc = "tick"
    /\ idx = 1
    /\ open = {1}
    /\ tried = {1}
    /\ rejected = {}
    /\ valid_count = 0
    /\ attempts = 0
    /\ result = 1
    /\ ticks = 0
    /\ good = 0
    /\ goodInRange = 0
    /\ readErr = FALSE
    /\ errBetween = FALSE
    /\ escaped = FALSE
    /\ singles = {}
    /\ buffer = <<>>
    /\ snapshot = <<>>
    /\ reading = InitialReading(variant)
    /\ appliedLog = <<>>
    /\ running = TRUE
    /\ closes = 0
    /\ ended = "no"
    /\ quit = FALSE
    /\ ioFailed = FALSE
    /\ advances = 0
    /\ used = NoneXY
    /\ craft = <<>>
    /\ crossed = FALSE
    /\ event = "none"

\* the bytes of b behind its last "\n": the line of b that is not yet ended
RECURSIVE OpenLine(_)
OpenLine(b) ==
    IF b = <<>> \/ b[Len(b)] = "\n" THEN <<>>
    ELSE Append(OpenLine(Slice(b, 1, Len(b) - 1)), b[Len(b)])

\* the bytes of the line the device is sending that have reached the host:
\* they wait on the channel, or the latest tick has read them
Underway == OpenLine(IF buffer # <<>> THEN buffer ELSE snapshot)

\* the device sends one more line
Arrive ==
    /\ pc = "tick"
    /\ Underway = <<>>
    /\ LineCount(buffer) < MaxBuffered
    /\ \E raw \in PollLines(variant) : buffer' = buffer \o raw
    /\ UNCHANGED <<lifeVars, variant, pc, ticks, scanVars, snapshot, reading, appliedLog>>

\* the most complete lines waiting in front of a line that is underway
MaxBefore == 1

\* game1.py reads serial_port.in_waiting bytes, however many have arrived:
\* the first bytes of a line reach the host, the others are still to come
ArrivePart ==
    /\ pc = "tick"
    /\ variant = "game1"
    /\ Underway = <<>>
    /\ LineCount(buffer) < MaxBefore
    /\ \E raw \in PollLines(variant) :
        \E k \in 1..(Len(raw) - 1) : buffer' = buffer \o Slice(raw, 1, k)
    /\ UNCHANGED <<lifeVars, variant, pc, ticks, scanVars, snapshot, reading, appliedLog>>

\* the other bytes of the line underway reach the host
ArriveRest ==
    /\ pc = "tick"
    /\ Underway # <<>>
    /\ \E raw \in PollLines(variant) :
        /\ Len(raw) > Len(Underway)
        /\ Slice(raw, 1, Len(Underway)) = Underway
        /\ buffer' = buffer \o Slice(raw, Len(Underway) + 1, Len(raw))
    /\ UNCHANGED <<lifeVars, variant, pc, ticks, scanVars, snapshot, reading, appliedLog>>

\* game.py lines 434-441, claude.py lines 380-387 on the bytes waiting and
\* the reading held: one readline per tick, and the reading of that line,
\* if it decodes, goes into the state
PollGame(buf, old) ==
    IF Len(buf) > 0
    THEN LET k == FirstLineEnd(buf)
             line == Strip(DecodeIgnore(Slice(buf, 1, k)))
             r == parse_sensor_data(line)
             got == line # <<>> /\ r.ok
         IN  [buffer  |-> Slice(buf, k + 1, Len(buf)),
              reading |-> IF got THEN r ELSE old,
              applied |-> IF got THEN <<r>> ELSE <<>>]
    ELSE [buffer |-> buf, reading |-> old, applied |-> <<>>]

\* a buggy intake: a tick without a decodable line puts the stick at centre
PollGame1Centred(buf, old) ==
    LET r == IF Len(buf) > 0
             THEN LastParsed(SplitLines(DecodeIgnore(buf)))
             ELSE NoneXY
    IN  [buffer  |-> <<>>,
         reading |-> IF r.ok THEN r ELSE XY(512, 512),
         applied |-> IF r.ok THEN <<r>> ELSE <<>>]

\* game1.py _update_game_state lines 385-394: everything waiting is read,
\* and the last line that parse_xy decodes is stored
PollGame1(buf, old) ==
    LET r == IF Len(buf) > 0
             THEN LastParsed(SplitLines(DecodeIgnore(buf)))
             ELSE NoneXY
    IN  [buffer  |-> <<>>,
         reading |-> IF r.ok THEN r ELSE old,
         applied |-> IF r.ok THEN <<r>> ELSE <<>>]

\* game2.py main lines 498-506 on the last waiting line, given the joystick
\* values held: called says whether display.update was reached, raised
\* whether int() raised ValueError; joy_x is assigned before int(y_str) can
\* raise
main_decode(last_line, old) ==
    LET parts == Split(last_line, ",")
        xs == Split(parts[1], ":")
        ys == Split(parts[2], ":")
        x_str == Strip(xs[Len(xs)])
        y_str == Strip(ys[Len(ys)])
    IN  IF HasMarkers(last_line) /\ Len(parts) >= 2
        THEN IF PyIntOk(x_str)
             THEN IF PyIntOk(y_str)
                  THEN [called |-> TRUE, raised |-> FALSE,
                        x |-> PyInt(x_str), y |-> PyInt(y_str)]
                  ELSE [called |-> FALSE, raised |-> TRUE,
                        x |-> PyInt(x_str), y |-> old.y]
             ELSE [called |-> FALSE, raised |-> TRUE, x |-> old.x, y |-> old.y]
        ELSE [called |-> FALSE, raised |-> FALSE, x |-> old.x, y |-> old.y]

\* game2.py main line 490: the stripped pieces of data.split('\n') that
\* are not empty
StrippedLines(data) ==
    LET pieces == Split(data, "\n")
        stripped == [k \in DOMAIN pieces |-> Strip(pieces[k])]
        NotEmpty(l) == l # <<>>
    IN  SelectSeq(stripped, NotEmpty)

\* game2.py main line 494: last_line = lines[-1]
NewestLine(lines) == lines[Len(lines)]

\* game2.py main lines 485-513: everything waiting is read, and only the
\* last line that is not blank is decoded; skipped says that the ValueError
\* handler ran, whose continue ends the iteration
PollGame2(buf, old) ==
    LET lines == StrippedLines(DecodeIgnore(buf))
    IN  IF Len(buf) > 0 /\ lines # <<>>
        THEN LET r == main_decode(NewestLine(lines), old)
             IN  [buffer  |-> <<>>,
                  reading |-> XY(r.x, r.y),
                  applied |-> IF r.called THEN <<XY(r.x, r.y)>> ELSE <<>>,
                  skipped |-> r.raised]
        ELSE [buffer |-> <<>>, reading |-> old, applied |-> <<>>,
              skipped |-> FALSE]

\* optimized_flight.py run lines 191-200: one readline per tick
PollOptimized(buf, old) ==
    IF Len(buf) > 0
    THEN LET k == FirstLineEnd(buf)
             r == joystick_update(Slice(buf, 1, k), old)
         IN  [buffer  |-> Slice(buf, k + 1, Len(buf)),
              reading |-> r,
              applied |-> IF r # old THEN <<r>> ELSE <<>>]
    ELSE [buffer |-> buf, reading |-> old, applied |-> <<>>]

\* the serial intake of one tick of game.py and claude.py
TickGame ==
    /\ pc = "tick"
    /\ variant \in {"game", "claude"}
    /\ snapshot' = buffer
    /\ LET p == PollGame(buffer, reading)
       IN  /\ buffer' = p.buffer
           /\ reading' = p.reading
           /\ appliedLog' = p.applied
    /\ UNCHANGED <<lifeVars, variant, pc, ticks, scanVars>>

\* the serial intake of one tick of game1.py
TickGame1 ==
    /\ pc = "tick"
    /\ variant = "game1"
    /\ snapshot' = buffer
    /\ LET p == PollGame1(buffer, reading)
       IN  /\ buffer' = p.buffer
           /\ reading' = p.reading
           /\ appliedLog' = p.applied
    /\ UNCHANGED <<lifeVars, variant, pc, ticks, scanVars>>

\* the serial intake of one tick of game2.py
TickGame2 ==
    /\ pc = "tick"
    /\ variant = "game2"
    /\ snapshot' = buffer
    /\ LET p == PollGame2(buffer, reading)
       IN  /\ buffer' = p.buffer
           /\ reading' = p.reading
           /\ appliedLog' = p.applied
    /\ UNCHANGED <<lifeVars, variant, pc, ticks, scanVars>>

\* the serial intake of one tick of optimized_flight.py
TickOptimized ==
    /\ pc = "tick"
    /\ variant = "optimized_flight"
    /\ snapshot' = buffer
    /\ LET p == PollOptimized(buffer, reading)
       IN  /\ buffer' = p.buffer
           /\ reading' = p.reading
           /\ appliedLog' = p.applied
    /\ UNCHANGED <<lifeVars, variant, pc, ticks, scanVars>>

NextPoll ==
    \/ Arrive
    \/ TickGame
    \/ TickGame1
    \/ TickGame2
    \/ TickOptimized

SpecPoll == InitPoll /\ [][NextPoll]_vars

\* the tick intake of game1.py on a channel whose bytes arrive as they come,
\* whole lines or parts of lines
InitPart == InitPoll /\ variant = "game1"

NextPart == Arrive \/ ArrivePart \/ ArriveRest \/ TickGame1

SpecPart == InitPart /\ [][NextPart]_vars

(***************************************************************************)
(* The aircraft state.  Python floats are followed in two ways.  In        *)
(* game.py and claude.py a position is a sum of terms x_norm * move_speed, *)
(* held here as the sum of the numerators of x_norm (x_norm = n / 512),    *)
(* so that the comparisons with the bounds are exact.  In game1.py and     *)
(* optimized_flight.py a position is held in SubPixel-ths of a pixel and   *)
(* every float operation rounds its result to FloatBits significant bits,  *)
(* to nearest with ties to even, as binary64 does with 53 bits.  The       *)
(* trigonometry of the integrators is not computed: roll, pitch and the    *)
(* velocities are followed by their sign, and the displacement of a tick   *)
(* is any of a few values of the sign the velocity has.                    *)
(***************************************************************************)
Abs(n) == IF n < 0 THEN 0 - n ELSE n

Sgn(n) == IF n < 0 THEN 0 - 1 ELSE IF n > 0 THEN 1 ELSE 0

Max(a, b) == IF a >= b THEN a ELSE b

Min(a, b) == IF a <= b THEN a ELSE b

\* significant bits of a float of the model
FloatBits == 12

\* position units per pixel
SubPixel == 16

RECURSIVE Pow2(_)
Pow2(k) == IF k = 0 THEN 1 ELSE 2 * Pow2(k - 1)

\* the spacing of the floats around a, a >= 0
RECURSIVE Ulp(_)
Ulp(a) == IF a < Pow2(FloatBits) THEN 1 ELSE 2 * Ulp(a \div 2)

\* the float nearest to n, ties to even
Round(n) ==
    LET a == Abs(n)
        step == Ulp(a)
        q == a \div step
        rem == a % step
        up == IF 2 * rem < step THEN q
              ELSE IF 2 * rem > step THEN q + 1
              ELSE IF q % 2 = 0 THEN q ELSE q + 1
    IN  Sgn(n) * up * step

\* a + b in floats
FAdd(a, b) == Round(a + b)

\* C fmod(a, w) for w > 0: the remainder with the sign of a, exact
Fmod(a, w) == IF a >= 0 THEN a % w ELSE 0 - ((0 - a) % w)

\* Python a % w on floats, w > 0 (float_rem): fmod, then w is added to a
\* negative remainder, and that sum is rounded
PyMod(a, w) ==
    LET mod == Fmod(a, w)
    IN  IF mod < 0 THEN FAdd(mod, w) ELSE mod

WINDOW_WIDTH == 1024

WINDOW_HEIGHT == 768

\* game1.py line 446: the margin of the clamp of y
Margin == 50

\* game.py line 386: deque(maxlen=100)
TrailMax == 100

\* the fields of the aircraft state; speed is velocity in game.py and
\* claude.py, dist is distance_traveled there and score in game1.py
Craft(x, y, z, vx, vy, roll, pitch, speed, dist, trail) ==
    [x |-> x, y |-> y, z |-> z, vx |-> vx, vy |-> vy, roll |-> roll,
     pitch |-> pitch, speed |-> speed, dist |-> dist, trail |-> trail]

\* the aircraft state at the start of the session: game.py lines 377-389,
\* game1.py lines 295-316, game2.py lines 140-146, optimized_flight.py
\* lines 48-53
InitialCraft(v) ==
    CASE v \in {"game", "claude", "game2"} ->
            Craft(0, 0, 0, 0, 0, 0, 0, 0, 0, <<>>)
      [] v = "game1" ->
            Craft((WINDOW_WIDTH \div 2) * SubPixel,
                  ((WINDOW_HEIGHT * 2) \div 3) * SubPixel,
                  0, 0, 0, 0, 0, 0, 0, <<>>)
      [] v = "optimized_flight" ->
            Craft((WINDOW_WIDTH \div 2) * SubPixel,
                  (WINDOW_HEIGHT \div 2) * SubPixel,
                  0, 0, 0, 0, 0, 0, 0, <<>>)

\* game.py line 461 on the position held as numerators (x = nx * 0.12 / 512)
\* and as the count of steps of 0.03 down (z = nz * 0.03, nz <= 0):
\* abs(airplane_x) > 10 or abs(airplane_y) > 10 or airplane_z < -15
OutOfBounds(nx, ny, nz) ==
    \/ Abs(nx) * 12 > 10 * 512 * 100
    \/ Abs(ny) * 12 > 10 * 512 * 100
    \/ (0 - nz) * 3 > 15 * 100

\* a buggy append: a deque without maxlen
TrailAppendUnbounded(t, e) == Append(t, e)

\* deque.append with maxlen
TrailAppend(t, e) ==
    IF Len(t) >= TrailMax THEN Append(Tail(t), e) ELSE Append(t, e)

\* game.py lines 444-465, claude.py lines 390-411: the step a decoded frame
\* r makes.  distance_traveled grows by a positive amount (dz is not 0) and
\* is held as the count of the steps added since it was last zero; velocity
\* is positive after a step and is held as 1.
AdvanceGame(c, r) ==
    LET nx == c.x + r.x
        ny == c.y + r.y
        nz == c.z - 1
        out == OutOfBounds(nx, ny, nz)
        px == IF out THEN 0 ELSE nx
        py == IF out THEN 0 ELSE ny
        pz == IF out THEN 0 ELSE nz
    IN  Craft(px, py, pz, 0, 0, r.x, r.y, 1, c.dist + 1,
              TrailAppend(IF out THEN <<>> ELSE c.trail, <<px, py, pz>>))

\* the signs a * k + b * (1 - k) can have, 0 < k < 1, given the signs of a
\* and b
Blend(a, b) ==
    IF a = b THEN {a}
    ELSE IF a = 0 THEN {b}
    ELSE IF b = 0 THEN {a}
    ELSE {0 - 1, 0, 1}

\* game1.py lines 400-406: the sign of the control after the deadzone, for
\* the offset n of the raw value from 512: abs(n / 511.5) < 0.1 gives 0
Deadzone(n) == IF Abs(n) * 20 < 1023 THEN 0 ELSE Sgn(n)

\* the displacements of a tick along x, of sign s: velocity_x * move_scale
DispX(s) ==
    IF s < 0 THEN {0 - (511 * SubPixel), 0 - (SubPixel + 1), 0}
    ELSE IF s > 0 THEN {SubPixel, 0}
    ELSE {0}

\* the displacements of a tick along y, of sign s
DispY(s) ==
    IF s < 0 THEN {0 - (300 * SubPixel), 0}
    ELSE IF s > 0 THEN {300 * SubPixel, 0}
    ELSE {0}

\* game1.py lines 400-450: the states one call of the integrator can
\* produce from c with the joystick values rd
Integrate1(c, rd) ==
    LET sr == Deadzone(rd.x - 512)
        sp == Deadzone(0 - (rd.y - 512))
        thrust == IF sp > 0 THEN 1 ELSE 0
    IN  { Craft(PyMod(FAdd(c.x, dx), WINDOW_WIDTH * SubPixel),
                Max(Margin * SubPixel,
                    Min((WINDOW_HEIGHT - Margin) * SubPixel, FAdd(c.y, dy))),
                c.z, vx, vy, roll, pitch,
                IF vx = 0 /\ vy = 0 THEN 0 ELSE 1,
                IF vx = 0 /\ vy = 0 THEN c.dist ELSE 1,
                c.trail) :
            <<roll, pitch, vx, vy, dx, dy>> \in
                { t \in Blend(c.roll, sr) \X Blend(c.pitch, sp)
                        \X {0 - 1, 0, 1} \X {0 - 1, 0, 1}
                        \X (DispX(0 - 1) \cup DispX(1))
                        \X (DispY(0 - 1) \cup DispY(1)) :
                    /\ t[3] \in Blend(c.vx, (0 - t[1]) * thrust)
                    /\ t[4] \in Blend(c.vy, thrust)
                    /\ t[5] \in DispX(t[3])
                    /\ t[6] \in DispY(t[4]) } }

\* optimized_flight.py lines 131-137: the positions one call of update can
\* produce; the attitude and the velocities are not followed
IntegrateOptimized(c) ==
    { [c EXCEPT !.x = Max(0, Min(WINDOW_WIDTH * SubPixel, FAdd(c.x, dx))),
                !.y = Max(0, Min(WINDOW_HEIGHT * SubPixel, FAdd(c.y, dy)))] :
        <<dx, dy>> \in {0 - (600 * SubPixel), 0, 600 * SubPixel}
                       \X {0 - (400 * SubPixel), 0, 400 * SubPixel} }

\* key R: game.py lines 426-430, claude.py lines 372-376, game1.py lines
\* 370-378; game2.py and optimized_flight.py handle no such key
ResetCraft(v, c) ==
    CASE v \in {"game", "claude"} ->
            [c EXCEPT !.x = 0, !.y = 0, !.z = 0, !.trail = <<>>, !.dist = 0]
      [] v = "game1" ->
            [c EXCEPT !.x = (WINDOW_WIDTH \div 2) * SubPixel,
                      !.y = ((WINDOW_HEIGHT * 2) \div 3) * SubPixel,
                      !.speed = 0, !.dist = 0]
      [] OTHER -> c

(***************************************************************************)
(* The session: the tick loop of main (game.py, claude.py, game2.py), of   *)
(* start_joystick_view (game1.py) and of FlightSimulator.run               *)
(* (optimized_flight.py), from the first test of the loop to the return.   *)
(* pc is "loop" at the test of the loop, "events" before the events are    *)
(* handled, "intake" before the channel is polled, "update" before the     *)
(* integrator is called (game1.py, optimized_flight.py), "render" before   *)
(* the state is drawn and "done" when the function has been left.          *)
(***************************************************************************)
FrameFar  == <<"X", ":", "5", "0", "0", "0", "0", ",", "Y", ":", "5", "1", "2", "\n">>
FrameHalf == <<"X", ":", "4", "4", "8", ",", "Y", ":", "\n">>

\* the lines a bound device emits during a session
SessionLines(v) ==
    CASE v \in {"game", "claude"} -> {FrameB, FrameFar, Garbage}
      [] v = "game1" -> {FrameB, Garbage}
      [] v = "game2" -> {FrameB, FrameHalf, Garbage}
      [] v = "optimized_flight" -> {FrameSpB, Garbage}

\* the most iterations of a session followed
MaxSessionTicks == 2

\* the most lines waiting on the channel of a session
MaxWaiting == 2

\* discovery has returned the handle of the only candidate and the state of
\* the session has been set up
InitSession ==
    /\ variant \in Variants
    /\ comports = <<1>>
    /\ ports = <<1>>
    /\ pc = "loop"
    /\ idx = 1
    /\ open = {1}
    /\ tried = {1}
    /\ rejected = {}
    /\ valid_count = 0
    /\ attempts = 0
    /\ result = 1
    /\ ticks = 0
    /\ good = 0
    /\ goodInRange = 0
    /\ readErr = FALSE
    /\ errBetween = FALSE
    /\ escaped = FALSE
    /\ singles = {}
    /\ buffer = <<>>
    /\ snapshot = <<>>
    /\ reading = InitialReading(variant)
    /\ appliedLog = <<>>
    /\ running = TRUE
    /\ closes = 0
    /\ ended = "no"
    /\ quit = FALSE
    /\ ioFailed = FALSE
    /\ advances = 0
    /\ used = InitialReading(variant)
    /\ craft = InitialCraft(variant)
    /\ crossed = FALSE
    /\ event = "none"

\* while running: one more iteration begins
LoopEnter ==
    /\ pc = "loop"
    /\ running
    /\ ticks < MaxSessionTicks
    /\ ticks' = ticks + 1
    /\ pc' = "events"
    /\ advances' = 0
    /\ crossed' = FALSE
    /\ event' = "none"
    /\ UNCHANGED <<variant, scanVars, sessVars, running, closes, ended, quit,
                   ioFailed, used, craft>>

\* the loop is left because running is False: game.py lines 600-602 and
\* claude.py lines 491-493 (the finally clause; the handle is open),
\* game1.py line 358, game2.py line 529, optimized_flight.py line 206
LoopExit ==
    /\ pc = "loop"
    /\ ~running
    /\ pc' = "done"
    /\ ended' = "normal"
    /\ closes' = closes + 1
    /\ open' = {}
    /\ UNCHANGED <<variant, ticks, comports, ports, idx, tried, rejected,
                   valid_count, attempts, result, good, goodInRange, readErr,
                   errBetween, escaped, singles, sessVars, running, quit, ioFailed,
                   advances, used, craft, crossed, event>>

\* a buggy unwinding: no program closes the handle when an exception
\* leaves the loop
ClosesOnRaiseNever(v) == FALSE

\* whether an exception that leaves the loop passes a finally clause that
\* closes the handle: game.py lines 600-602, claude.py lines 491-493; there
\* is none in game1.py and game2.py, and the finally clause of
\* optimized_flight.py lines 211-213 closes nothing
ClosesOnRaise(v) == v \in {"game", "claude"}

\* an exception leaves the tick loop and the function
Abort ==
    /\ pc' = "done"
    /\ ended' = "raised"
    /\ IF ClosesOnRaise(variant)
       THEN /\ closes' = closes + 1
            /\ open' = {}
       ELSE UNCHANGED <<closes, open>>
    /\ UNCHANGED <<variant, ticks, comports, ports, idx, tried, rejected,
                   valid_count, attempts, result, good, goodInRange, readErr,
                   errBetween, escaped, singles>>

\* the events the loop handles in one iteration: none, a quit (window close
\* or Escape) or key R
Events == {"none", "quit", "reset"}

\* game.py lines 420-430, claude.py lines 366-376, game1.py lines 347 and
\* 362-379, game2.py lines 477-482, optimized_flight.py lines 80-86
HandleEvents ==
    /\ pc = "events"
    /\ \E ev \in Events :
        /\ event' = ev
        /\ running' = IF ev = "quit" THEN FALSE ELSE running
        /\ quit' = (quit \/ ev = "quit")
        /\ craft' = IF ev = "reset" THEN ResetCraft(variant, craft) ELSE craft
    /\ pc' = "intake"
    /\ UNCHANGED <<variant, ticks, scanVars, sessVars, closes, ended, ioFailed,
                   advances, used, crossed>>

\* pygame raises while the events are fetched or the frame is drawn, or
\* KeyboardInterrupt arrives there or in the integrator
StepRaises ==
    /\ pc \in {"events", "update", "render"}
    /\ Abort
    /\ UNCHANGED <<sessVars, running, quit, ioFailed, advances, used, craft,
                   crossed, event>>

\* the device sends one more line before the channel is polled
SessionArrive ==
    /\ pc = "intake"
    /\ LineCount(buffer) < MaxWaiting
    /\ \E raw \in SessionLines(variant) : buffer' = buffer \o raw
    /\ UNCHANGED <<lifeVars, variant, pc, ticks, scanVars, snapshot, reading,
                   appliedLog>>

\* ser.in_waiting raises (the device is gone).  game1.py line 385 is inside
\* the try of _update_game_state; game.py line 434, claude.py line 380,
\* game2.py line 485 and optimized_flight.py line 191 are outside the inner
\* try
InWaitingRaises ==
    /\ pc = "intake"
    /\ ioFailed' = TRUE
    /\ IF variant = "game1"
       THEN /\ pc' = "update"
            /\ UNCHANGED <<variant, ticks, scanVars, closes, ended>>
       ELSE Abort
    /\ appliedLog' = <<>>
    /\ UNCHANGED <<buffer, snapshot, reading, running, quit, advances, used,
                   craft, crossed, event>>

\* the read raises after in_waiting told of bytes: game.py lines 467-468,
\* claude.py lines 413-414, game1.py lines 395-397, game2.py lines 514-520
\* (reset_input_buffer, which may raise in turn), optimized_flight.py lines
\* 199-200
SessionReadRaises ==
    /\ pc = "intake"
    /\ Len(buffer) > 0
    /\ ioFailed' = TRUE
    /\ appliedLog' = <<>>
    /\ pc' = IF variant \in {"game1", "optimized_flight"} THEN "update" ELSE "render"
    /\ IF variant = "game2" THEN buffer' \in {<<>>, buffer} ELSE buffer' = buffer
    /\ UNCHANGED <<variant, ticks, scanVars, snapshot, reading, running, closes,
                   ended, quit, advances, used, craft, crossed, event>>

\* game.py lines 433-468, claude.py lines 379-414: the poll, and the step of
\* the aircraft inside the branch of a decoded frame
IntakeGame ==
    /\ pc = "intake"
    /\ variant \in {"game", "claude"}
    /\ snapshot' = buffer
    /\ LET p == PollGame(buffer, reading)
       IN  /\ buffer' = p.buffer
           /\ reading' = p.reading
           /\ appliedLog' = p.applied
           /\ IF p.applied # <<>>
              THEN /\ craft' = AdvanceGame(craft, p.applied[1])
                   /\ advances' = advances + 1
                   /\ crossed' = OutOfBounds(craft.x + p.applied[1].x,
                                             craft.y + p.applied[1].y,
                                             craft.z - 1)
              ELSE UNCHANGED <<craft, advances, crossed>>
    /\ pc' = "render"
    /\ UNCHANGED <<variant, ticks, scanVars, running, closes, ended, quit,
                   ioFailed, used, event>>

\* game1.py lines 383-394: the poll of _update_game_state
IntakeGame1 ==
    /\ pc = "intake"
    /\ variant = "game1"
    /\ snapshot' = buffer
    /\ LET p == PollGame1(buffer, reading)
       IN  /\ buffer' = p.buffer
           /\ reading' = p.reading
           /\ appliedLog' = p.applied
    /\ pc' = "update"
    /\ UNCHANGED <<lifeVars, variant, ticks, scanVars>>

\* game2.py lines 485-513: the poll; display.update is called inside the
\* branch of a decoded line, and the handler of ValueError ends the
\* iteration.  What display.update computes is not followed.
IntakeGame2 ==
    /\ pc = "intake"
    /\ variant = "game2"
    /\ snapshot' = buffer
    /\ LET p == PollGame2(buffer, reading)
       IN  /\ buffer' = p.buffer
           /\ reading' = p.reading
           /\ appliedLog' = p.applied
           /\ advances' = advances + Len(p.applied)
           /\ used' = IF p.applied # <<>> THEN p.reading ELSE used
           /\ pc' = IF p.skipped THEN "loop" ELSE "render"
    /\ UNCHANGED <<variant, ticks, scanVars, running, closes, ended, quit,
                   ioFailed, craft, crossed, event>>

\* optimized_flight.py lines 191-200: the poll of run
IntakeOptimized ==
    /\ pc = "intake"
    /\ variant = "optimized_flight"
    /\ snapshot' = buffer
    /\ LET p == PollOptimized(buffer, reading)
       IN  /\ buffer' = p.buffer
           /\ reading' = p.reading
           /\ appliedLog' = p.applied
    /\ pc' = "update"
    /\ UNCHANGED <<lifeVars, variant, ticks, scanVars>>

\* game1.py lines 399-450: the integrator of _update_game_state
UpdateGame1 ==
    /\ pc = "update"
    /\ variant = "game1"
    /\ craft' \in Integrate1(craft, reading)
    /\ used' = reading
    /\ advances' = advances + 1
    /\ pc' = "render"
    /\ UNCHANGED <<variant, ticks, scanVars, sessVars, running, closes, ended,
                   quit, ioFailed, crossed, event>>

\* optimized_flight.py line 202: self.update()
UpdateOptimized ==
    /\ pc = "update"
    /\ variant = "optimized_flight"
    /\ craft' \in IntegrateOptimized(craft)
    /\ used' = reading
    /\ advances' = advances + 1
    /\ pc' = "render"
    /\ UNCHANGED <<variant, ticks, scanVars, sessVars, running, closes, ended,
                   quit, ioFailed, crossed, event>>

\* the frame is drawn and the clock ticks: game.py lines 470-595, claude.py
\* lines 416-486, game1.py lines 353-356, game2.py lines 523-526,
\* optimized_flight.py lines 203-204
Render ==
    /\ pc = "render"
    /\ pc' = "loop"
    /\ UNCHANGED <<lifeVars, variant, ticks, scanVars, sessVars>>

NextSession ==
    \/ LoopEnter
    \/ LoopExit
    \/ HandleEvents
    \/ StepRaises
    \/ SessionArrive
    \/ InWaitingRaises
    \/ SessionReadRaises
    \/ IntakeGame
    \/ IntakeGame1
    \/ IntakeGame2
    \/ IntakeOptimized
    \/ UpdateGame1
    \/ UpdateOptimized
    \/ Render

SpecSession == InitSession /\ [][NextSession]_vars

(***************************************************************************)
(* The frame decoders on their own: parse_sensor_data (game.py, claude.py) *)
(* and parse_xy (game1.py) applied to one line of text.                    *)
(***************************************************************************)
\* the programs that decode through a function of their own
DecodeVariants == {"game", "claude", "game1"}

\* the leading '<timestamp> -> ' of a line, absent or present
StampLong  == <<"0", "8", ":", "5", "9", ":", "3", "0", ".", "0", "0", "1",
                " ", "-", ">", " ">>
StampShort == <<"5", "9", ":", "3", "0", " ", "-", ">", " ">>

\* a labelled line: an optional timestamp, then the X field and the Y field
\* in either order around a delimiter; a field is key, ':' or '=', optional
\* blank, digits
Labelled(stamp, k, sep, pad, xs, ys, delim, yFirst) ==
    LET fx == <<k[1], sep>> \o pad \o xs
        fy == <<k[2], sep>> \o pad \o ys
    IN  stamp \o (IF yFirst THEN fy \o delim \o fx ELSE fx \o delim \o fy)

\* the digit fields a device writes
FieldDigits == {<<"4", "4", "8">>, <<"4", "6", "1">>, <<"7">>}

\* lines of the comma convention: 'X:<x>,Y:<y>' with upper- or lower-case
\* keys, ':' or '=', either field order
CommaFrames ==
    {[text |-> Labelled(st, k, sep, pad, xs, ys, <<",">>, yf),
      x |-> IntOfDigits(xs), y |-> IntOfDigits(ys)] :
        st \in {<<>>, StampLong, StampShort},
        k \in {<<"X", "Y">>, <<"x", "y">>}, sep \in {":", "="},
        pad \in {<<>>, <<" ">>}, xs \in FieldDigits, ys \in FieldDigits,
        yf \in BOOLEAN}

\* lines of the pipe convention: 'X:<x> | Y:<y>', with or without a leading
\* '<timestamp> -> '
PipeFrames ==
    {[text |-> Labelled(st, <<"X", "Y">>, ":", pad, xs, ys, <<" ", "|", " ">>, FALSE),
      x |-> IntOfDigits(xs), y |-> IntOfDigits(ys)] :
        st \in {<<>>, StampLong, StampShort}, pad \in {<<>>, <<" ">>},
        xs \in FieldDigits, ys \in FieldDigits}

\* lines of the fallback convention: two runs of 2 to 4 digits
FallbackFrames ==
    {[text |-> xs \o d \o ys, x |-> IntOfDigits(xs), y |-> IntOfDigits(ys)] :
        xs \in FieldDigits \ {<<"7">>}, ys \in FieldDigits \ {<<"7">>},
        d \in {<<" ">>, <<",">>}}

ConventionFrames == CommaFrames \cup PipeFrames \cup FallbackFrames

\* lines of no convention
NoFrames == {<<"n", "o", "i", "s", "e">>, <<>>}

\* the lines handed to the decoder of program v.  int() in Python is
\* unbounded; parse_sensor_data joins every digit before the first comma,
\* so the lines it is followed on are those whose joined digits stay within
\* the integers of the model checker (the long timestamp is followed with
\* the pipe delimiter, where no comma makes the join happen).
DecodeInputs(v) ==
    ({f.text : f \in ConventionFrames} \cup NoFrames)
    \ (IF v = "game1" THEN {}
       ELSE {f.text : f \in {g \in CommaFrames :
                              /\ Len(g.text) > Len(StampLong)
                              /\ Slice(g.text, 1, Len(StampLong)) = StampLong}})

\* a line is about to be decoded; buffer holds its text
InitDecode ==
    /\ variant \in DecodeVariants
    /\ comports = <<>>
    /\ ports = <<>>
    /\ pc = "decode"
    /\ idx = 0
    /\ open = {}
    /\ tried = {}
    /\ rejected = {}
    /\ valid_count = 0
    /\ attempts = 0
    /\ result = 0
    /\ ticks = 0
    /\ good = 0
    /\ goodInRange = 0
    /\ readErr = FALSE
    /\ errBetween = FALSE
    /\ escaped = FALSE
    /\ singles = {}
    /\ buffer \in DecodeInputs(variant)
    /\ snapshot = <<>>
    /\ reading = NoneXY
    /\ appliedLog = <<>>
    /\ running = TRUE
    /\ closes = 0
    /\ ended = "no"
    /\ quit = FALSE
    /\ ioFailed = FALSE
    /\ advances = 0
    /\ used = NoneXY
    /\ craft = <<>>
    /\ crossed = FALSE
    /\ event = "none"

\* x_norm, y_norm = parse_sensor_data(line)
DecodeSensor ==
    /\ pc = "decode"
    /\ variant \in {"game", "claude"}
    /\ reading' = parse_sensor_data(buffer)
    /\ pc' = "decoded"
    /\ UNCHANGED <<lifeVars, variant, ticks, scanVars, buffer, snapshot, appliedLog>>

\* x, y = parse_xy(line)
DecodeXY ==
    /\ pc = "decode"
    /\ variant = "game1"
    /\ reading' = parse_xy(buffer)
    /\ pc' = "decoded"
    /\ UNCHANGED <<lifeVars, variant, ticks, scanVars, buffer, snapshot, appliedLog>>

NextDecode == DecodeSensor \/ DecodeXY

SpecDecode == InitDecode /\ [][NextDecode]_vars

(***************************************************************************)
(* The integrators on their own: _update_game_state (game1.py),            *)
(* FlightDisplay.update (game2.py) and FlightSimulator.update              *)
(* (optimized_flight.py), computed in fixed point.  Angles are in degrees, *)
(* every quantity is counted in units of 1 / SubPixel and every operation  *)
(* rounds its result to the nearest unit; positions are floats of the      *)
(* model as above.  Two instances, a and b, are created alike and receive  *)
(* the same arguments in every tick.                                       *)
(***************************************************************************)
\* n / d rounded to the nearest integer, d > 0
Div(n, d) ==
    IF n >= 0 THEN (2 * n + d) \div (2 * d)
    ELSE 0 - ((2 * (0 - n) + d) \div (2 * d))

\* the product of two quantities
FMul(a, b) == Div(a * b, SubPixel)

\* math.sin(math.radians(a)) for 0 <= a <= 180 degrees, by the rational
\* approximation 4 a (180 - a) / (40500 - a (180 - a)), which is exact at 0,
\* 30, 90, 150 and 180 degrees
SinHalfTurn(a) ==
    LET p == Div(a * (180 * SubPixel - a), SubPixel)
    IN  Div(4 * p * SubPixel, 40500 * SubPixel - p)

\* math.sin(math.radians(a))
Sin(a) ==
    LET m == a % (360 * SubPixel)
    IN  IF m <= 180 * SubPixel THEN SinHalfTurn(m)
        ELSE 0 - SinHalfTurn(m - 180 * SubPixel)

\* math.cos(math.radians(a))
Cos(a) == Sin(a + 90 * SubPixel)

\* the largest r in lo..hi with r * r <= n
RECURSIVE SqrtIn(_, _, _)
SqrtIn(n, lo, hi) ==
    IF lo = hi THEN lo
    ELSE LET mid == (lo + hi + 1) \div 2
         IN  IF mid * mid <= n THEN SqrtIn(n, mid, hi) ELSE SqrtIn(n, lo, mid - 1)

\* math.sqrt(vx ** 2 + vy ** 2)
Hypot(vx, vy) ==
    LET n == vx * vx + vy * vy
    IN  SqrtIn(n, 0, Abs(vx) + Abs(vy))

\* the deadzone without its test
NoDeadzone(n, d) == Div(n * SubPixel, d)

\* the normalised axis value n / d after the deadzone: 0 when
\* abs(n / d) < 0.1 (game1.py lines 400-406, game2.py lines 188-196,
\* optimized_flight.py lines 93-99)
ApplyDeadzone(n, d) == IF Abs(n) * 10 < d THEN 0 ELSE Div(n * SubPixel, d)

\* an integrator that starts with the stick held up
InitialIntegratorStickUp(v) ==
    InitialCraft(v) @@
    [x_val |-> 512, y_val |-> 0, camx |-> 0, camy |-> 0, dt |-> 0,
     target_roll |-> 0, target_pitch |-> 0, base_thrust |-> 0]

\* the fields of an integrator beside those of the aircraft state: the
\* joystick values it holds (game_state x_val, y_val; last_joy_x, last_joy_y;
\* joystick_x, joystick_y), the camera, and the locals dt, target_roll,
\* target_pitch and base_thrust of its latest call
InitialIntegrator(v) ==
    InitialCraft(v) @@
    [x_val |-> IF v = "game2" THEN 512 * SubPixel ELSE 512,
     y_val |-> IF v = "game2" THEN 512 * SubPixel ELSE 512,
     camx |-> 0, camy |-> 0, dt |-> 0,
     target_roll |-> 0, target_pitch |-> 0, base_thrust |-> 0]

\* game1.py _update_game_state(serial_port, game_state, jet_state, dt) with
\* the reading r of the newest decodable line (NoneXY when there is none)
\* and dt in 1/600 s
Step1(c, dt, r) ==
    LET x_val == IF r.ok THEN r.x ELSE c.x_val
        y_val == IF r.ok THEN r.y ELSE c.y_val
        rollAxis  == ApplyDeadzone(2 * (x_val - 512), 1023)
        pitchAxis == ApplyDeadzone(0 - 2 * (y_val - 512), 1023)
        target_roll  == rollAxis * 45
        roll  == Div(c.roll * 9 + target_roll, 10)
        target_pitch == pitchAxis * 30
        pitch == Div(c.pitch * 9 + target_pitch, 10)
        base_thrust == Max(0, pitchAxis) * 500
        turn_rate == Div(FMul(0 - Sin(roll), base_thrust), 50)
        forward_speed == FMul(base_thrust, Cos(Abs(pitch)))
        vx == Div((Div(c.vx * 95, 100) + turn_rate) * 98, 100)
        vy == Div((Div(c.vy * 95, 100) + Div(forward_speed, 10)) * 98, 100)
        speed == Hypot(vx, vy)
    IN  [c EXCEPT
            !.x_val = x_val, !.y_val = y_val, !.dt = dt,
            !.target_roll = target_roll, !.target_pitch = target_pitch,
            !.base_thrust = base_thrust,
            !.roll = roll, !.pitch = pitch, !.vx = vx, !.vy = vy,
            !.x = PyMod(FAdd(c.x, Div(vx * dt, 10)), WINDOW_WIDTH * SubPixel),
            !.y = Max(Margin * SubPixel,
                      Min((WINDOW_HEIGHT - Margin) * SubPixel,
                          FAdd(c.y, Div(vy * dt, 10)))),
            !.speed = speed,
            !.dist = c.dist + Div(speed * dt, 600)]

\* game2.py FlightDisplay.update(x, y)
Step2(c, r) ==
    LET last_joy_x == Div(c.x_val * 8 + r.x * SubPixel * 2, 10)
        last_joy_y == Div(c.y_val * 8 + r.y * SubPixel * 2, 10)
        dx == ApplyDeadzone(2 * (last_joy_x - 512 * SubPixel), 1023 * SubPixel)
        dy == ApplyDeadzone(0 - 2 * (last_joy_y - 512 * SubPixel), 1023 * SubPixel)
        target_roll  == dx * 45
        target_pitch == dy * 30
        roll  == Div(c.roll * 9 + target_roll, 10)
        pitch == Div(c.pitch * 9 + target_pitch, 10)
        base_thrust == Max(0, dy) * 500
        turn_rate == Div(FMul(0 - Sin(roll), base_thrust), 50)
        forward_speed == FMul(base_thrust, Cos(Abs(pitch)))
        vx == Div((Div(c.vx * 95, 100) + turn_rate) * 98, 100)
        vy == Div((Div(c.vy * 95, 100) + Div(forward_speed, 10)) * 98, 100)
        pos_x == FAdd(c.x, vx)
        pos_y == FAdd(c.y, vy)
    IN  [c EXCEPT
            !.x_val = last_joy_x, !.y_val = last_joy_y,
            !.target_roll = target_roll, !.target_pitch = target_pitch,
            !.base_thrust = base_thrust,
            !.roll = roll, !.pitch = pitch, !.vx = vx, !.vy = vy,
            !.x = pos_x, !.y = pos_y,
            !.camx = Div(0 - pos_x, 10), !.camy = Div(0 - pos_y, 10)]

\* optimized_flight.py FlightSimulator.update() with the joystick values
\* the run loop holds and ms = self.clock.get_time()
StepOptimized(c, ms) ==
    LET dx == ApplyDeadzone(c.x_val - 512, 512)
        dy == ApplyDeadzone(c.y_val - 512, 512)
        target_roll  == (0 - dx) * 45
        target_pitch == (0 - dy) * 30
        roll  == c.roll + Div(target_roll - c.roll, 10)
        pitch == c.pitch + Div((target_pitch - c.pitch) * 8, 100)
        ax == Div(Sin(roll) * 5 * ms, 100 * 16)
        ay == Div((Div(Sin(pitch) * 5, 100) - Div(SubPixel, 10)) * ms, 16)
        vx1 == Div((c.vx + ax) * 98, 100)
        vy1 == Div((c.vy + ay) * 98, 100)
        speed == Hypot(vx1, vy1)
        fast == speed > 5 * SubPixel
        vx == IF fast THEN Div(vx1 * 5 * SubPixel, speed) ELSE vx1
        vy == IF fast THEN Div(vy1 * 5 * SubPixel, speed) ELSE vy1
        pos_x == Max(0, Min(WINDOW_WIDTH * SubPixel,
                            FAdd(c.x, Div(vx * ms * 10, 16))))
        pos_y == Max(0, Min(WINDOW_HEIGHT * SubPixel,
                            FAdd(c.y, Div(vy * ms * 10, 16))))
    IN  [c EXCEPT
            !.dt = ms,
            !.target_roll = target_roll, !.target_pitch = target_pitch,
            !.roll = roll, !.pitch = pitch, !.vx = vx, !.vy = vy,
            !.speed = speed,
            !.x = pos_x, !.y = pos_y,
            !.camx = c.camx + Div((WINDOW_WIDTH \div 2) * SubPixel - pos_x - c.camx, 10),
            !.camy = c.camy + Div((WINDOW_HEIGHT \div 2) * SubPixel - pos_y - c.camy, 10)]

\* self.clock.get_time() of optimized_flight.py in ms
ClockMs == {16, 32}

\* the step reads the wall clock for dt instead of taking the argument
OutcomesTimed(v, c, dt, r) == {Step1(c, d, r) : d \in {10, 60}}

\* the states one tick can leave the integrator c of program v in, given
\* the arguments dt and r of the tick: _update_game_state reads nothing but
\* its arguments; display.update is called when the tick decoded a reading
\* and reads nothing but its arguments; FlightSimulator.update reads the
\* clock of pygame, after the run loop has stored the reading
Outcomes(v, c, dt, r) ==
    CASE v = "game1" -> {Step1(c, dt, r)}
      [] v = "game2" -> IF r.ok THEN {Step2(c, r)} ELSE {c}
      [] v = "optimized_flight" ->
            {StepOptimized(IF r.ok THEN [c EXCEPT !.x_val = r.x, !.y_val = r.y]
                           ELSE c, ms) : ms \in ClockMs}

\* the programs whose integrator is followed
DynVariants == {"game1", "game2", "optimized_flight"}

\* the readings a tick can receive: the centre, a value inside the deadzone
\* on both axes, full deflections, and a Y field far above the nominal range
DynReadings ==
    {XY(512, 512), XY(530, 500), XY(1023, 0), XY(0, 1023), XY(512, 0),
     XY(512, 35184)}

\* dt of game1.py in 1/600 s: min(current_time - last_time, 0.1) of two
\* readings of time.time(), which is not monotonic: a tick of 1/60 s, the
\* cap of 0.1 s, and a clock set back by 0.05 s between two iterations
Dts == {10, 60, 0 - 30}

\* ticks followed
MaxDynTicks == 3

\* two integrators have just been created
InitDynamics ==
    /\ variant \in DynVariants
    /\ comports = <<1>>
    /\ ports = <<1>>
    /\ pc = "integrate"
    /\ idx = 1
    /\ open = {1}
    /\ tried = {1}
    /\ rejected = {}
    /\ valid_count = 0
    /\ attempts = 0
    /\ result = 1
    /\ ticks = 0
    /\ good = 0
    /\ goodInRange = 0
    /\ readErr = FALSE
    /\ errBetween = FALSE
    /\ escaped = FALSE
    /\ singles = {}
    /\ buffer = <<>>
    /\ snapshot = <<>>
    /\ reading = NoneXY
    /\ appliedLog = <<>>
    /\ running = TRUE
    /\ closes = 0
    /\ ended = "no"
    /\ quit = FALSE
    /\ ioFailed = FALSE
    /\ advances = 0
    /\ used = NoneXY
    /\ craft = [a |-> InitialIntegrator(variant), b |-> InitialIntegrator(variant)]
    /\ crossed = FALSE
    /\ event = "none"

\* one tick of game1.py on both instances, with the same dt and the same
\* reading; appliedLog holds the readings received so far
DynGame1 ==
    /\ pc = "integrate"
    /\ variant = "game1"
    /\ ticks < MaxDynTicks
    /\ \E r \in DynReadings \cup {NoneXY}, dt \in Dts :
        /\ reading' = r
        /\ \E sa \in Outcomes(variant, craft.a, dt, r),
              sb \in Outcomes(variant, craft.b, dt, r) :
                craft' = [a |-> sa, b |-> sb]
        /\ appliedLog' = IF r.ok THEN Append(appliedLog, r) ELSE appliedLog
    /\ ticks' = ticks + 1
    /\ UNCHANGED <<variant, pc, scanVars, buffer, snapshot, running, closes,
                   ended, quit, ioFailed, advances, used, crossed, event>>

\* one tick of game2.py or optimized_flight.py on both instances, with the
\* same reading; neither takes a dt
DynOther ==
    /\ pc = "integrate"
    /\ variant \in {"game2", "optimized_flight"}
    /\ ticks < MaxDynTicks
    /\ \E r \in DynReadings \cup {NoneXY} :
        /\ reading' = r
        /\ \E sa \in Outcomes(variant, craft.a, 0, r),
              sb \in Outcomes(variant, craft.b, 0, r) :
                craft' = [a |-> sa, b |-> sb]
        /\ appliedLog' = IF r.ok THEN Append(appliedLog, r) ELSE appliedLog
    /\ ticks' = ticks + 1
    /\ UNCHANGED <<variant, pc, scanVars, buffer, snapshot, running, closes,
                   ended, quit, ioFailed, advances, used, crossed, event>>

NextDynamics == DynGame1 \/ DynOther

SpecDynamics == InitDynamics /\ [][NextDynamics]_vars

(***************************************************************************)
(* The trail of game.py and claude.py over a long flight.                  *)
(*                                                                         *)
(* One tick is one step: readline, parse_sensor_data and, for a decoded    *)
(* frame, the step of the aircraft with its append to the trail, as in     *)
(* IntakeGame.  The stick is moved while the trail is short and held       *)
(* afterwards, so that flights long enough to fill the trail and to leave  *)
(* the bounds are followed.  pc is "frames"; snapshot holds the line of    *)
(* the last tick and advances counts the frames processed.                 *)
(***************************************************************************)
FrameRight == <<"X", ":", "1", "0", "2", "3", ",", "Y", ":", "5", "1", "2", "\n">>

\* the lines the device emits during a long flight
TrailLines == {FrameB, FrameRight, Garbage}

\* the stick is moved while the trail holds fewer points than this
MaxTurnLen == 2

\* the most frames of a flight followed
MaxFrames == 305

InitTrail ==
    /\ variant \in {"game", "claude"}
    /\ comports = <<1>>
    /\ ports = <<1>>
    /\ pc = "frames"
    /\ idx = 1
    /\ open = {1}
    /\ tried = {1}
    /\ rejected = {}
    /\ valid_count = 0
    /\ attempts = 0
    /\ result = 1
    /\ ticks = 0
    /\ good = 0
    /\ goodInRange = 0
    /\ readErr = FALSE
    /\ errBetween = FALSE
    /\ escaped = FALSE
    /\ singles = {}
    /\ buffer = <<>>
    /\ snapshot = <<>>
    /\ reading = InitialReading(variant)
    /\ appliedLog = <<>>
    /\ running = TRUE
    /\ closes = 0
    /\ ended = "no"
    /\ quit = FALSE
    /\ ioFailed = FALSE
    /\ advances = 0
    /\ used = NoneXY
    /\ craft = InitialCraft(variant)
    /\ crossed = FALSE
    /\ event = "none"

\* game.py lines 433-465, claude.py lines 379-411: the tick on the line raw
TrailTick(raw) ==
    /\ pc = "frames"
    /\ advances < MaxFrames
    /\ snapshot' = raw
    /\ LET p == PollGame(raw, reading)
       IN  /\ buffer' = p.buffer
           /\ reading' = p.reading
           /\ appliedLog' = p.applied
           /\ IF p.applied # <<>>
              THEN /\ craft' = AdvanceGame(craft, p.applied[1])
                   /\ advances' = advances + 1
                   /\ crossed' = OutOfBounds(craft.x + p.applied[1].x,
                                             craft.y + p.applied[1].y,
                                             craft.z - 1)
              ELSE UNCHANGED <<craft, advances, crossed>>
    /\ UNCHANGED <<variant, pc, ticks, scanVars, running, closes, ended, quit,
                   ioFailed, used, event>>

\* a tick while the stick is being moved
TrailMove ==
    /\ Len(craft.trail) < MaxTurnLen
    /\ \E raw \in TrailLines : TrailTick(raw)

\* a tick while the stick is held: the device repeats its last line
TrailHold ==
    /\ Len(craft.trail) >= MaxTurnLen
    /\ TrailTick(snapshot)

NextTrail == TrailMove \/ TrailHold

SpecTrail == InitTrail /\ [][NextTrail]_vars

(***************************************************************************)
(* Properties of discovery.                                                *)
(***************************************************************************)
\* positions inside the discovery function
ScanPcs == {"scan_start", "scan_open", "scan_reset", "scan_while", "scan_test"}

\* positions after discovery has ended
AfterScanPcs == {"found", "not_found", "exit", "tick"}

\* C1 as stated: in the four counting scans a candidate is accepted exactly
\* when the second line that holds both markers and decodes has been read:
\* while the candidate is still being read fewer than two such lines were
\* seen, and the returned candidate has yielded exactly two.
C1_AcceptedAtSecondDecodedLine ==
    variant \in Counting =>
        /\ pc = "scan_while" => good <= 1
        /\ pc = "found" => good = RequiredValid

\* the steps of C1 amended
C1_Step ==
    variant \in Counting =>
        /\ (pc # "found" /\ pc' = "found") =>
              /\ pc = "scan_while"
              /\ goodInRange = RequiredValid - 1
              /\ goodInRange' = RequiredValid
              /\ attempts' = attempts + 1
              /\ result' = idx
        /\ (rejected' # rejected) => goodInRange <= 1
        /\ pc = "found" => pc' \in {"tick", "exit"}

\* C1 amended: the same with "decodes" read as the program's validity test,
\* which in game2.py also wants both values in 0..1023.  The handle is
\* returned by the very read that brings the count to two, a candidate is
\* given up only with fewer than two such lines, and nothing is read between
\* the return and the caller's test.
C1_AcceptedAtSecondValidLine ==
    /\ [](variant \in Counting =>
            /\ pc = "scan_while" => goodInRange <= 1
            /\ pc = "found" => goodInRange = RequiredValid)
    /\ [][C1_Step]_vars

\* C1 witness: game2.py has returned a handle after two lines in range and a
\* decodable line out of range
C1_Witness ==
    /\ variant = "game2"
    /\ pc = "found"
    /\ goodInRange = RequiredValid
    /\ good > goodInRange

\* C2 as stated: find_joystick returns a handle only for a channel from
\* which at least two valid frames were read
C2_JoystickNeedsTwoFrames ==
    (variant = "optimized_flight" /\ pc = "found") => good >= 2

\* the description holds a keyword, whatever the case of either
MatchesKeyword(p) ==
    /\ p.description.present
    /\ \E k \in DOMAIN preferred_keywords :
         Contains(ToLower(preferred_keywords[k]), ToLower(p.description.text))

\* position of port id e in the list q
PosIn(q, e) == CHOOSE i \in DOMAIN q : q[i] = e

\* C3: the list the counting scans iterate over is the enumerated list
\* reordered so that keyword candidates come first, each tier is in
\* descending numeric id, equal ids of a tier keep their enumeration order,
\* and a candidate without a description is in the second tier.
C3_SortedOrder ==
    (variant \in Counting /\ pc # "scan_start") =>
        /\ Len(ports) = Len(comports)
        /\ Range(ports) = Range(comports)
        /\ \A i, j \in DOMAIN ports :
             i < j =>
               LET a == PortPool[ports[i]]
                   b == PortPool[ports[j]]
               IN  /\ MatchesKeyword(b) => MatchesKeyword(a)
                   /\ (MatchesKeyword(a) <=> MatchesKeyword(b)) =>
                        /\ get_com_num(a) >= get_com_num(b)
                        /\ get_com_num(a) = get_com_num(b) =>
                             PosIn(comports, ports[i]) < PosIn(comports, ports[j])
        /\ \A i \in DOMAIN ports :
             ~PortPool[ports[i]].description.present =>
                 \A j \in DOMAIN ports : MatchesKeyword(PortPool[ports[j]]) => j < i

\* C3 witness: COM10 (no description), ttyS3 (HC-05) and COM3 (USB Serial),
\* enumerated in this order, are tried as ttyS3, COM3, COM10
C3_Witness ==
    /\ variant = "game"
    /\ comports = <<2, 3, 1>>
    /\ ports = <<3, 1, 2>>

\* C4: the returned candidate is the first accepted one: exactly the
\* candidates up to it were opened, all before it were given up, and none
\* after it is opened later on.
C4_FirstAccepted ==
    /\ tried \in {1..idx, 1..(idx - 1)}
    /\ result # 0 =>
         /\ result = idx
         /\ tried = 1..result
         /\ rejected = 1..(result - 1)
         /\ result \in open

\* C4 witness: the second of three candidates was returned and the session
\* has started
C4_Witness ==
    /\ result = 2
    /\ Len(ports) = 3
    /\ pc = "tick"
    /\ ticks >= 1

\* C5: in the counting scans at most the current candidate's handle is open,
\* none is open when the next candidate is about to be opened, and when the
\* scan has ended only the returned handle is open.
C5_HandlesClosed ==
    variant \in Counting =>
        /\ open \subseteq {idx}
        /\ pc = "scan_open" => open = {}
        /\ pc \in AfterScanPcs => open = (IF result = 0 THEN {} ELSE {result})

\* C5 witness: the second candidate is about to be opened after the first
\* was read from, yielded one valid frame and was closed
C5_Witness ==
    /\ variant \in Counting
    /\ pc = "scan_open"
    /\ idx = 2
    /\ valid_count = 1
    /\ rejected = {1}
    /\ open = {}

\* steps left at most before discovery ends
Rank ==
    CASE pc = "scan_start" -> (Len(comports) + 1) * (MaxAttempts + 4)
      [] pc = "scan_open" -> (Len(ports) - idx) * (MaxAttempts + 4) + MaxAttempts + 3
      [] pc = "scan_reset" -> (Len(ports) - idx) * (MaxAttempts + 4) + MaxAttempts + 2
      [] pc \in {"scan_while", "scan_test"} ->
            (Len(ports) - idx) * (MaxAttempts + 4) + MaxAttempts - attempts + 1
      [] OTHER -> 0

\* the steps of C6
C6_Step ==
    /\ (pc = "scan_while" /\ pc' = "scan_while") => attempts' = attempts + 1
    /\ pc \in ScanPcs => Rank' < Rank

\* C6: never more than 60 read attempts on a candidate, every read of the
\* validation loop (empty, undecodable, raising) uses up one attempt, and
\* every step of discovery brings its end nearer, so it ends.
C6_BoundedAttempts ==
    /\ [](attempts <= MaxAttempts /\ Rank >= 0)
    /\ [][C6_Step]_vars

\* C6 witness: the sixtieth attempt on a candidate has been made without
\* acceptance
C6_Witness ==
    /\ pc = "scan_while"
    /\ attempts = MaxAttempts
    /\ readErr

\* the steps of C7
C7_Step ==
    /\ (variant \in Counting /\ readErr' /\ attempts' = attempts + 1) =>
          /\ valid_count' = valid_count
          /\ pc' = "scan_while"
          /\ open' = open
    /\ (pc = "scan_open" /\ open' = open) =>
          /\ pc' \in {"scan_open", "not_found", "exit"}
          /\ pc' = "scan_open" => idx' = idx + 1
          /\ pc' # "scan_open" => idx = Len(ports)

\* C7: no exception leaves discovery; a failed open leads to the next
\* candidate; a read that raises leaves valid_count alone and the loop goes
\* on with the next attempt.
C7_ErrorsAbsorbed ==
    /\ [](~escaped)
    /\ [][C7_Step]_vars

\* C7 witness: a handle was returned although a read raised between the
\* two valid frames
C7_Witness ==
    /\ variant \in Counting
    /\ pc = "found"
    /\ errBetween

RECURSIVE RawLines(_)
RawLines(b) ==
    IF b = <<>> THEN <<>>
    ELSE LET k == FirstLineEnd(b)
         IN  <<Slice(b, 1, k)>> \o RawLines(Slice(b, k + 1, Len(b)))

\* the reading the program's tick obtains from one raw line, NoneXY when
\* the line gives none (optimized_flight.py: when it does not renew both
\* values)
FrameOf(v, raw) ==
    CASE v \in {"game", "claude"} -> parse_sensor_data(Text(raw))
      [] v = "game1" -> parse_xy(Text(raw))
      [] v = "game2" ->
            LET r == main_decode(Text(raw), XY(0, 0))
            IN  IF r.called THEN XY(r.x, r.y) ELSE NoneXY
      [] v = "optimized_flight" ->
            IF joystick_update(raw, XY(0, 0)) = joystick_update(raw, XY(1, 1))
            THEN joystick_update(raw, XY(0, 0))
            ELSE NoneXY

\* the readings of the decodable lines of b, oldest first
RECURSIVE FramesOfLines(_, _)
FramesOfLines(v, lines) ==
    IF lines = <<>> THEN <<>>
    ELSE (IF FrameOf(v, Head(lines)).ok THEN <<FrameOf(v, Head(lines))>> ELSE <<>>)
         \o FramesOfLines(v, Tail(lines))

FramesIn(v, b) == FramesOfLines(v, RawLines(b))

\* C9 as stated: in game.py, claude.py and optimized_flight.py, when two
\* decodable frames were waiting as a tick polled, the reading the tick
\* applied is the later one.
C9_LatestWins ==
    (variant \in {"game", "claude", "optimized_flight"}
        /\ Len(FramesIn(variant, snapshot)) >= 2) =>
            reading = FramesIn(variant, snapshot)[Len(FramesIn(variant, snapshot))]

\* the steps of C10
C10_Step ==
    (variant = "game1" /\ snapshot' # snapshot) => buffer' = <<>>

\* C10: in game1.py, after a poll that found lines waiting, the stored
\* (x_val, y_val) is the reading of the last waiting line that decodes,
\* whatever follows that line; it is the only reading the poll stored, and
\* the poll left nothing of the older lines waiting.
C10_LastDecodableStored ==
    /\ [](variant = "game1" =>
            LET f == FramesIn("game1", snapshot)
            IN  /\ f # <<>> => (reading = f[Len(f)] /\ appliedLog = <<f[Len(f)]>>)
                /\ f = <<>> => appliedLog = <<>>)
    /\ [][C10_Step]_vars

\* C10 witness: two different frames and then a line of noise were waiting;
\* the second frame is stored
C10_Witness ==
    /\ variant = "game1"
    /\ snapshot = FrameA \o FrameB \o Garbage
    /\ buffer = <<>>
    /\ reading = XY(600, 300)
    /\ appliedLog = <<XY(600, 300)>>

\* C11 as stated: in game2.py, after a poll that found several lines
\* waiting, the reading passed to display.update is that of the most recent
\* waiting line that decodes, also when a later waiting line does not decode.
C11_MostRecentDecodable ==
    variant = "game2" =>
        LET f == FramesIn("game2", snapshot)
        IN  f # <<>> => appliedLog = <<f[Len(f)]>>

(***************************************************************************)
(* Properties of the session.                                              *)
(***************************************************************************)
\* C12: in game.py and claude.py the bound handle is open and was never
\* closed while the tick loop runs, and when main has been left, by a quit
\* event, by KeyboardInterrupt or by any exception raised while the events
\* are handled, the channel is polled or the frame is drawn, close() was
\* called on it exactly once.
C12_ClosedOnce ==
    variant \in {"game", "claude"} =>
        /\ closes <= 1
        /\ pc = "done" => (closes = 1 /\ open = {})
        /\ pc # "done" => (closes = 0 /\ open = {1})

\* C12 witness: main was left by an exception in its first iteration,
\* before any frame was read, and the handle was closed once
C12_Witness ==
    /\ variant = "game"
    /\ pc = "done"
    /\ ended = "raised"
    /\ ticks = 1
    /\ snapshot = <<>>
    /\ buffer = <<>>
    /\ closes = 1
    /\ open = {}

\* C13 as stated: in game1.py, game2.py and optimized_flight.py, when the
\* session has ended, by the loop's normal exit or by an exception raised
\* inside the tick loop, close() was called on the bound handle exactly
\* once.
C13_ClosedOnEveryExit ==
    variant \in {"game1", "game2", "optimized_flight"} =>
        /\ closes <= 1
        /\ pc = "done" => (closes = 1 /\ open = {})

\* C14 as stated: in every program, once a quit event was handled no new
\* iteration begins, the session that ends after it ends with the handle
\* closed, and the handle is never closed while the loop still polls it.
C14_QuitLeadsToClose ==
    /\ quit => pc # "events"
    /\ (quit /\ pc = "done") => (closes = 1 /\ open = {})
    /\ open = {} => pc = "done"

\* C15 as stated: once a read on the bound channel raised, the session has
\* ended: the tick loop was left and the handle is closed.
C15_ReadErrorEndsSession ==
    ioFailed => (pc = "done" /\ open = {})

\* C16 as stated: in game.py, claude.py and game2.py, whenever an iteration
\* of the tick loop has completed, the aircraft state was advanced exactly
\* once in it.
C16_AdvancedOncePerTick ==
    (variant \in {"game", "claude", "game2"} /\ pc = "loop" /\ ticks >= 1) =>
        advances = 1

\* the steps of C17
C17_Step ==
    (variant = "game1" /\ pc = "update" /\ pc' = "render" /\ appliedLog = <<>>) =>
        (used' = used /\ reading = used)

\* C17: in game1.py, in a tick whose poll obtained no decodable frame
\* (nothing was waiting, no waiting line decoded, or the read raised), the
\* integrator uses the (x_val, y_val) it used in the tick before, which are
\* the values the program holds.
C17_HoldLastInput == [][C17_Step]_vars

\* C17 witness: the first tick stored the frame X:600,Y:300; in the second
\* the read raised, and the integrator has used 600, 300 again
C17_Witness ==
    /\ variant = "game1"
    /\ ticks = 2
    /\ pc = "render"
    /\ ioFailed
    /\ appliedLog = <<>>
    /\ used = XY(600, 300)

\* C18 as stated: every state that is about to be rendered, after
\* _update_game_state of game1.py, has the jet's x in [0, WINDOW_WIDTH) and
\* its y in [50, WINDOW_HEIGHT - 50], and after FlightSimulator.update of
\* optimized_flight.py has pos_x in [0, WINDOW_WIDTH] and pos_y in
\* [0, WINDOW_HEIGHT].
C18_WithinBounds ==
    pc = "render" =>
        /\ variant = "game1" =>
            /\ 0 <= craft.x /\ craft.x < WINDOW_WIDTH * SubPixel
            /\ Margin * SubPixel <= craft.y
            /\ craft.y <= (WINDOW_HEIGHT - Margin) * SubPixel
        /\ variant = "optimized_flight" =>
            /\ 0 <= craft.x /\ craft.x <= WINDOW_WIDTH * SubPixel
            /\ 0 <= craft.y /\ craft.y <= WINDOW_HEIGHT * SubPixel

\* C19 as stated: in game.py and claude.py, when the frame processed in an
\* iteration moved the airplane past the bound, the state about to be
\* rendered has the position at the origin, a trail that holds nothing
\* older than the reset, and distance_traveled back at zero.
C19_ResetOnCrossing ==
    (variant \in {"game", "claude"} /\ pc = "render" /\ crossed) =>
        /\ craft.x = 0 /\ craft.y = 0 /\ craft.z = 0
        /\ craft.trail \in {<<>>, << <<0, 0, 0>> >>}
        /\ craft.dist = 0

\* C20 as stated: in game.py, claude.py and game1.py, right after key R was
\* handled the whole aircraft state (position, velocities, roll, pitch,
\* speed, distance or score, trail) equals the state of the session's start.
C20_ResetReinitialises ==
    (variant \in {"game", "claude", "game1"} /\ pc = "intake" /\ event = "reset") =>
        craft = InitialCraft(variant)

(***************************************************************************)
(* Properties of the frame decoders.                                       *)
(***************************************************************************)
\* C21 as stated: parse_xy of game1.py returns (x, y) for every line of the
\* three framing conventions (comma with lower-case keys, '=' and either
\* field order; pipe with or without timestamp; two runs of 2 to 4 digits):
\* the first component is the X field's value and the second the Y field's.
C21_ParseXYConventions ==
    (variant = "game1" /\ pc = "decoded") =>
        \A f \in ConventionFrames : buffer = f.text => reading = XY(f.x, f.y)

\* C22 as stated: parse_sensor_data of game.py and claude.py decodes every
\* line of the three conventions to ((x - 512) / 512, (y - 512) / 512), and
\* a line of no convention to (None, None).
C22_ParseSensorConventions ==
    (variant \in {"game", "claude"} /\ pc = "decoded") =>
        /\ \A f \in ConventionFrames :
                buffer = f.text => reading = XY(f.x - 512, f.y - 512)
        /\ buffer \in NoFrames => reading = NoneXY

(***************************************************************************)
(* Properties of the integrators.                                          *)
(***************************************************************************)
\* C23: in the three integrators, when the normalised value of an axis is
\* below 0.1 in absolute value, the target roll (x axis) or target pitch (y
\* axis) of that tick is exactly 0, and in game1.py and game2.py the thrust
\* taken from that pitch axis is exactly 0.
C23_DeadzoneExact ==
    LET c == craft.a
        nx == CASE variant = "game1" -> 2 * (c.x_val - 512)
                [] variant = "game2" -> 2 * (c.x_val - 512 * SubPixel)
                [] variant = "optimized_flight" -> c.x_val - 512
        ny == CASE variant = "game1" -> 2 * (c.y_val - 512)
                [] variant = "game2" -> 2 * (c.y_val - 512 * SubPixel)
                [] variant = "optimized_flight" -> c.y_val - 512
        d  == CASE variant = "game1" -> 1023
                [] variant = "game2" -> 1023 * SubPixel
                [] variant = "optimized_flight" -> 512
    IN  /\ Abs(nx) * 10 < d => c.target_roll = 0
        /\ Abs(ny) * 10 < d => (c.target_pitch = 0 /\ c.base_thrust = 0)

\* C23 witness: game1.py has rolled and pitched under a full deflection and
\* then receives X:530,Y:500, off centre and inside the deadzone: both
\* targets and the thrust are 0 while roll and pitch still are not
C23_Witness ==
    /\ variant = "game1"
    /\ reading = XY(530, 500)
    /\ craft.a.x_val = 530
    /\ craft.a.target_roll = 0
    /\ craft.a.target_pitch = 0
    /\ craft.a.base_thrust = 0
    /\ craft.a.roll # 0
    /\ craft.a.pitch # 0

C28_RestWithoutFrames ==
    (variant = "game1" /\ appliedLog = <<>>) =>
        /\ craft.a.roll = 0 /\ craft.a.pitch = 0
        /\ craft.a.vx = 0 /\ craft.a.vy = 0
        /\ craft.a.speed = 0 /\ craft.a.dist = 0
        /\ craft.a.x = (WINDOW_WIDTH \div 2) * SubPixel
        /\ craft.a.y = ((WINDOW_HEIGHT * 2) \div 3) * SubPixel

\* C28 witness: game1.py has run every tick followed without a frame, the
\* last one with a dt of 0.1 s
C28_Witness ==
    /\ variant = "game1"
    /\ appliedLog = <<>>
    /\ ticks = MaxDynTicks
    /\ craft.a.dt = 60
    /\ craft.a.x = 512 * SubPixel
    /\ craft.a.y = 512 * SubPixel

\* C29 as stated: in game1.py velocity_y is never negative, and, as the jet
\* starts at its initial y with score 0 and neither ever decreases (no
\* reset happens here), y is never above its initial value on the screen
\* (never smaller) and the score is never negative.
C29_NeverBackwards ==
    variant = "game1" =>
        /\ craft.a.vy >= 0
        /\ craft.a.y >= ((WINDOW_HEIGHT * 2) \div 3) * SubPixel
        /\ craft.a.dist >= 0

(***************************************************************************)
(* Properties of the intake, continued.                                    *)
(***************************************************************************)
\* C25 as stated: in game1.py the stored (x_val, y_val) is always the
\* reading of one complete line the device sent (or the initial 512, 512):
\* bytes that begin or end inside a line never give a stored reading.
C25_CompleteLinesOnly ==
    variant = "game1" =>
        reading \in {InitialReading("game1")}
                    \cup {FrameOf("game1", raw) : raw \in PollLines("game1")}

(***************************************************************************)
(* Properties of discovery, continued.                                     *)
(***************************************************************************)
\* C26: in the counting scans valid_count counts the valid frames of the
\* candidate being read and of no other: while a candidate is read, and
\* when it is returned, valid_count is the number of valid frames read from
\* that candidate since it was opened.  So a candidate is never returned on
\* a frame of its own and a frame of a candidate before it.
C26_CountPerCandidate ==
    (variant \in Counting /\ pc \in {"scan_while", "found"}) =>
        valid_count = goodInRange

\* C26 witness: exactly one valid frame was read from each of the two
\* candidates, both were given up and nothing is returned
C26_Witness ==
    /\ variant \in Counting
    /\ pc = NotFoundPc(variant)
    /\ Len(ports) = 2
    /\ singles = {1, 2}
    /\ rejected = {1, 2}
    /\ open = {}
    /\ result = 0

\* C27: find_joystick of optimized_flight.py closes every handle it opened
\* and does not return, a handle whose read raised during the test window
\* included: before the next candidate is opened no handle is open, and once
\* find_joystick has returned at most the returned handle is open.
C27_JoystickHandlesClosed ==
    variant = "optimized_flight" =>
        /\ pc = "scan_open" => open = {}
        /\ pc \in AfterScanPcs => open = (IF result = 0 THEN {} ELSE {result})

(***************************************************************************)
(* Properties of the trail.                                                *)
(***************************************************************************)
\* C30: in game.py and claude.py the trail never holds more than 100
\* points; right after a tick that processed a frame the newest point of
\* the trail is the position of the airplane; and when that frame took the
\* airplane out of bounds the trail is exactly the one point (0, 0, 0).
C30_TrailFollows ==
    (variant \in {"game", "claude"} /\ pc \in {"frames", "render"}) =>
        /\ Len(craft.trail) <= TrailMax
        /\ appliedLog # <<>> =>
              /\ craft.trail # <<>>
              /\ craft.trail[Len(craft.trail)] = <<craft.x, craft.y, craft.z>>
        /\ (appliedLog # <<>> /\ crossed) =>
              craft.trail = << <<0, 0, 0>> >>

\* C30 witness: more than 200 frames into a flight a frame has just been
\* processed, the trail is full, its oldest point is the origin an
\* out-of-bounds reset left there and its newest point is the position
C30_Witness ==
    /\ variant \in {"game", "claude"}
    /\ pc = "frames"
    /\ appliedLog # <<>>
    /\ advances > 2 * TrailMax
    /\ Len(craft.trail) = TrailMax
    /\ craft.trail[1] = <<0, 0, 0>>
    /\ craft.trail[TrailMax] = <<craft.x, craft.y, craft.z>>
    /\ craft.z < 0

====
